---- MODULE Spec2Model ----
(***************************************************************************)
(* Verification model of the CNC nesting / toolpath core.                  *)
(*                                                                         *)
(*   - DXFNester (src/nester/nest.py): nest_parts, bottom_left_fill,       *)
(*     find_best_position_with_rotation, find_position_for_polygon.        *)
(*   - BoringOperation, ContouringOperation, SlottingOperation             *)
(*     (src/cutter_coder/src/operations), ToolpathGenerator, DXFParser and *)
(*     Mach3PostProcessor (src/cutter_coder/src).                          *)
(*   - nest_parts of the nesting MCP servers (src/brain/src/mcp_servers/   *)
(*     nesting/server.py and simple_server.py).                            *)
(*                                                                         *)
(* Nesting geometry: a polygon is a finite set of axis-aligned rectangles  *)
(* <<x0, y0, x1, y1>> with disjoint interiors (a rectilinear polygon).     *)
(* Lengths are integers counting 1/StepDivisor mm, so that the adaptive    *)
(* grid step min(w, h) / 10 of find_position_for_polygon is exact for      *)
(* parts whose dimensions are whole millimetres.                           *)
(***************************************************************************)
EXTENDS Integers, Sequences, FiniteSets, TLC

VARIABLES
    \* ---- DXFNester ----
    sheet_width,       \* self.sheet_width
    sheet_height,      \* self.sheet_height
    spacing,           \* self.spacing
    dxf_files,         \* argument of nest_parts: what each file holds
    file_entities,     \* the original entities extracted from each file
    entry,             \* "nest_parts" or "bottom_left_fill": the method called
    pc,                \* "idle", "fill", "done", "off"
    parts,             \* the list bottom_left_fill iterates over
    idx,               \* number of parts the for loop has finished
    placed_parts,      \* bottom_left_fill: placed_parts
    remaining_parts,   \* bottom_left_fill: remaining_parts
    occupied_polygons, \* bottom_left_fill: occupied_polygons
    unfittable_parts,  \* nest_parts: unfittable_parts
    result,            \* what nest_parts returns
    last_rotations,    \* the four rotated polygons of the last search
    \* ---- toolpath generation ----
    cut_call,          \* the operation called, its arguments and settings
    cut_state,         \* "ready", "returned", "raised", "off"
    cut_out,           \* what the call returned
    \* ---- nesting server ----
    nesting_status,    \* the global nesting_status of the server module
    requests           \* the nest_parts calls made to the server

nestVars == <<sheet_width, sheet_height, spacing, dxf_files, file_entities, entry, pc, parts,
              idx, placed_parts, remaining_parts, occupied_polygons,
              unfittable_parts, result, last_rotations>>

cutVars == <<cut_call, cut_state, cut_out>>

serverVars == <<nesting_status, requests>>

vars == <<nestVars, cutVars, serverVars>>

----------------------------------------------------------------------------
(* Bounds of the model *)

MaxParts == 3       \* longest list of input files
MaxSpacing == 1     \* largest spacing, in mm, of the small sheets
MaxThickness == 3   \* largest material thickness, in mm
MaxDepthPerPass == 2 \* largest depth per pass / step down, in mm
MaxHoleRadius == 3  \* largest hole radius, in mm
MaxToolpaths == 3  \* longest list given to _optimize_toolpath_order
MaxCutParts == 2  \* most parts given to generate_toolpaths
MaxContours == 3  \* most contours given to _classify_geometries
MaxMoves == 3  \* most moves given to generate_gcode
MaxSegments == 5  \* most segments given to _assemble_contours
max_segments == 3  \* segments a trace may take: stands for the 200 of _trace_contour
MaxRequests == 3  \* most nest_parts calls made to the nesting server
MaxUrls == 1  \* most URLs given to one nest_parts call of the server
MaxRepeats == 1  \* most further calls of generate_gcode on one post-processor

----------------------------------------------------------------------------
(* Arithmetic helpers *)

Min(a, b) == IF a < b THEN a ELSE b
Max(a, b) == IF a > b THEN a ELSE b
Abs(a) == IF a < 0 THEN -a ELSE a
SetMin(S) == CHOOSE m \in S : \A n \in S : m <= n
SetMax(S) == CHOOSE m \in S : \A n \in S : m >= n
CeilDiv(a, b) == (a + b - 1) \div b

----------------------------------------------------------------------------
(* Polygon geometry (shapely) *)

StepDivisor == 10
Mm(n) == n * StepDivisor

\* polygon.bounds: (minx, miny, maxx, maxy)
Bounds(polygon) ==
    << SetMin({r[1] : r \in polygon}), SetMin({r[2] : r \in polygon}),
       SetMax({r[3] : r \in polygon}), SetMax({r[4] : r \in polygon}) >>

\* shapely.affinity.translate
Translate(polygon, dx, dy) ==
    { <<r[1] + dx, r[2] + dy, r[3] + dx, r[4] + dy>> : r \in polygon }

\* normalize_polygon with min_x used for both axes.
NormalizePolygonSameOffset(polygon) ==
    LET bounds == Bounds(polygon)
        min_x == bounds[1]
    IN  { <<r[1] - min_x, r[2] - min_x, r[3] - min_x, r[4] - min_x>> : r \in polygon }

\* DXFNester.normalize_polygon
NormalizePolygon(polygon) ==
    LET bounds == Bounds(polygon)
        min_x == bounds[1]
        min_y == bounds[2]
    IN  Translate(polygon, -min_x, -min_y)

\* One point rotated counter-clockwise by angle degrees about origin.
RotatePoint(p, angle, origin) ==
    LET dx == p[1] - origin[1]
        dy == p[2] - origin[2]
    IN  CASE angle = 0   -> << origin[1] + dx, origin[2] + dy >>
          [] angle = 90  -> << origin[1] - dy, origin[2] + dx >>
          [] angle = 180 -> << origin[1] - dx, origin[2] - dy >>
          [] angle = 270 -> << origin[1] + dy, origin[2] - dx >>

\* shapely.affinity.rotate(polygon, angle, origin=...)
Rotate(polygon, angle, origin) ==
    { LET a == RotatePoint(<<r[1], r[2]>>, angle, origin)
          b == RotatePoint(<<r[3], r[4]>>, angle, origin)
      IN  << Min(a[1], b[1]), Min(a[2], b[2]), Max(a[1], b[1]), Max(a[2], b[2]) >>
      : r \in polygon }

RECURSIVE PolygonArea(_)
\* polygon.area
PolygonArea(polygon) ==
    IF polygon = {} THEN 0
    ELSE LET r == CHOOSE q \in polygon : TRUE
         IN  (r[3] - r[1]) * (r[4] - r[2]) + PolygonArea(polygon \ {r})

\* Squared distance between two closed rectangles.
RectDistSq(a, b) ==
    LET gx == Max(0, Max(a[1] - b[3], b[1] - a[3]))
        gy == Max(0, Max(a[2] - b[4], b[2] - a[4]))
    IN  gx * gx + gy * gy

\* candidate.intersects(occupied.buffer(distance)): some point of candidate
\* lies within distance of occupied (touching counts as intersecting).
IntersectsBuffered(candidate, occupied, distance) ==
    \E a \in candidate, b \in occupied : RectDistSq(a, b) <= distance * distance

\* numpy.arange(0, stop, step)
Arange(stop, step) ==
    IF stop <= 0 THEN {} ELSE { i * step : i \in 0 .. (CeilDiv(stop, step) - 1) }

----------------------------------------------------------------------------
(* DXFNester *)

NoGeometry == {}

\* The part record nest_parts builds from the collision polygon of file i.
MakePart(i, collision_polygon) ==
    LET bounds0 == Bounds(collision_polygon)
        normalized == NormalizePolygon(collision_polygon)
        bounds == Bounds(normalized)
    IN  [ id |-> i,
          file |-> i,
          polygon |-> normalized,
          normalization_offset |-> << bounds0[1], bounds0[2] >>,
          collision_centroid |-> << (bounds[1] + bounds[3]) \div 2,
                                    (bounds[2] + bounds[4]) \div 2 >>,
          width |-> bounds[3] - bounds[1],
          height |-> bounds[4] - bounds[2],
          area |-> PolygonArea(collision_polygon) ]

RECURSIVE LoadParts(_, _)
\* The extraction loop of nest_parts over files[1..n]: the parts list.
LoadParts(files, n) ==
    IF n = 0 THEN << >>
    ELSE IF files[n] = NoGeometry THEN LoadParts(files, n - 1)
         ELSE Append(LoadParts(files, n - 1), MakePart(n, files[n]))

\* The extraction loop with the files without geometry left out.
LoadUnfittableNone(files, n) == << >>

RECURSIVE LoadUnfittable(_, _)
\* The extraction loop of nest_parts: files without valid geometry.
LoadUnfittable(files, n) ==
    IF n = 0 THEN << >>
    ELSE IF files[n] = NoGeometry THEN Append(LoadUnfittable(files, n - 1), n)
         ELSE LoadUnfittable(files, n - 1)

\* s with part p inserted before the elements of equal area.
InsertByAreaBeforeEquals(s, p) ==
    LET k == Cardinality({ i \in 1 .. Len(s) : s[i].area > p.area })
    IN  SubSeq(s, 1, k) \o << p >> \o SubSeq(s, k + 1, Len(s))

\* s with part p inserted after the last element whose area is >= p.area.
InsertByArea(s, p) ==
    LET k == Cardinality({ i \in 1 .. Len(s) : s[i].area >= p.area })
    IN  SubSeq(s, 1, k) \o << p >> \o SubSeq(s, k + 1, Len(s))

RECURSIVE SortByAreaDesc(_, _)
\* parts.sort(key=lambda p: p['area'], reverse=True): stable, largest first.
SortByAreaDesc(s, n) ==
    IF n = 0 THEN << >> ELSE InsertByArea(SortByAreaDesc(s, n - 1), s[n])

NoCall == [ op |-> "none" ]
NoOutput == [ toolpaths |-> << >>, pass_depths |-> << >> ]

\* nesting_status of the server module as it is defined and as every
\* finished nest_parts call leaves it; a message is the tuple of its text
\* and the numbers printed in it.
Ready == [ is_running |-> FALSE, message |-> << "Ready" >> ]

rotation_angles == << 0, 90, 180, 270 >>

NoPosition == [ found |-> FALSE ]

\* The collision loop without the spacing buffer.
CollisionUnbuffered(candidate, occupied) ==
    \E k \in 1 .. Len(occupied) :
        \E a \in candidate, b \in occupied[k] :
            /\ a[1] <= b[3] /\ b[1] <= a[3]
            /\ a[2] <= b[4] /\ b[2] <= a[4]

\* The collision loop of find_position_for_polygon.
Collision(candidate, occupied) ==
    \E k \in 1 .. Len(occupied) :
        IntersectsBuffered(candidate, occupied[k], spacing)

\* The scan without its check of the candidate's bounds against the sheet.
PositionAcceptedUnchecked(polygon, x, y, occupied) ==
    ~(\E k \in 1 .. Len(occupied) :
        \E a \in Translate(polygon, x, y), b \in occupied[k] :
            LET gx == Max(0, Max(a[1] - b[3], b[1] - a[3]))
                gy == Max(0, Max(a[2] - b[4], b[2] - a[4]))
            IN  gx * gx + gy * gy <= spacing * spacing)

\* Whether the scan of find_position_for_polygon accepts (x, y).
PositionAccepted(polygon, x, y, occupied) ==
    LET candidate == Translate(polygon, x, y)
        bounds == Bounds(candidate)
    IN  /\ ~(bounds[3] > sheet_width \/ bounds[4] > sheet_height)
        /\ ~Collision(candidate, occupied)

RECURSIVE ScanRows(_, _, _, _, _, _)
\* The nested for loops from row j on: y = j * step_size over ny rows, each
\* row scanned left to right; the first accepted (x, y) is returned.
ScanRows(polygon, xs, step_size, ny, j, occupied) ==
    IF j >= ny THEN NoPosition
    ELSE LET y == j * step_size
             accepted == { x \in xs : PositionAccepted(polygon, x, y, occupied) }
         IN  IF accepted # {}
             THEN [ found |-> TRUE, x |-> SetMin(accepted), y |-> y ]
             ELSE ScanRows(polygon, xs, step_size, ny, j + 1, occupied)

\* DXFNester.find_position_for_polygon
FindPositionForPolygon(polygon, part_width, part_height, occupied) ==
    LET step_size == Max(Mm(1), Min(part_width, part_height) \div StepDivisor)
        ys == Arange(sheet_height - part_height + Mm(1), step_size)
        xs == Arange(sheet_width - part_width + Mm(1), step_size)
    IN  ScanRows(polygon, xs, step_size, Cardinality(ys), 0, occupied)

\* The rotated, re-normalized polygon of one loop iteration.
RotatedPolygon(part, angle) ==
    NormalizePolygon(Rotate(part.polygon, angle, part.collision_centroid))

\* One iteration of the angle loop: the candidate this angle offers.
TryAngle(part, angle, occupied) ==
    LET rotated_polygon == RotatedPolygon(part, angle)
        bounds == Bounds(rotated_polygon)
        rotated_width == bounds[3] - bounds[1]
        rotated_height == bounds[4] - bounds[2]
    IN  IF \/ rotated_width + spacing > sheet_width
           \/ rotated_height + spacing > sheet_height
        THEN NoPosition
        ELSE LET position == FindPositionForPolygon(rotated_polygon, rotated_width,
                                                    rotated_height, occupied)
             IN  IF position.found
                 THEN [ found |-> TRUE, x |-> position.x, y |-> position.y,
                        rotation |-> angle, polygon |-> rotated_polygon,
                        area_used |-> (position.x + rotated_width)
                                      * (position.y + rotated_height) ]
                 ELSE NoPosition

\* The comparison with <= in place of <.
ImprovesOrTies(cand, best) ==
    cand.found /\ (~best.found \/ cand.area_used <= best.area_used)

\* if area_used < best_area_used: the candidate replaces the best so far.
Improves(cand, best) ==
    cand.found /\ (~best.found \/ cand.area_used < best.area_used)

RECURSIVE ScanAngles(_, _, _)
\* best_position after the first k angles.
ScanAngles(part, occupied, k) ==
    IF k = 0 THEN NoPosition
    ELSE LET best == ScanAngles(part, occupied, k - 1)
             cand == TryAngle(part, rotation_angles[k], occupied)
         IN  IF Improves(cand, best) THEN cand ELSE best

\* DXFNester.find_best_position_with_rotation
FindBestPositionWithRotation(part, occupied) ==
    ScanAngles(part, occupied, Len(rotation_angles))

\* The rotated polygons the search computed for a part, by angle index.
RotationsOf(part) ==
    [ k \in 1 .. Len(rotation_angles) |->
        [ id |-> part.id, angle |-> rotation_angles[k],
          original |-> part.polygon,
          polygon |-> RotatedPolygon(part, rotation_angles[k]) ] ]

\* The record bottom_left_fill appends to placed_parts.
PlacedRecord(part, best) ==
    [ id |-> part.id,
      file |-> part.file,
      polygon |-> Translate(best.polygon, best.x, best.y),
      original_polygon |-> part.polygon,
      original_entities |-> file_entities[part.id],
      normalization_offset |-> part.normalization_offset,
      collision_centroid |-> part.collision_centroid,
      x |-> best.x,
      y |-> best.y,
      rotation |-> best.rotation ]

NoResult == [ message |-> "none" ]

\* nest_parts up to the call of bottom_left_fill (lines 214-272).
NestPartsLoad ==
    /\ pc = "idle"
    /\ entry = "nest_parts"
    /\ LET loaded == LoadParts(dxf_files, Len(dxf_files))
       IN  IF loaded = << >>
           THEN /\ parts' = << >>
                /\ unfittable_parts' = LoadUnfittable(dxf_files, Len(dxf_files))
                /\ result' = [ nested_dxf |-> FALSE, utilization |-> 0,
                               unfittable_parts |->
                                   [ i \in 1 .. Len(dxf_files) |-> i ],
                               placed_count |-> 0,
                               message |-> "No valid parts to nest" ]
                /\ pc' = "done"
           ELSE /\ parts' = SortByAreaDesc(loaded, Len(loaded))
                /\ unfittable_parts' = LoadUnfittable(dxf_files, Len(dxf_files))
                /\ result' = NoResult
                /\ pc' = "fill"
    /\ idx' = 0
    /\ placed_parts' = << >>
    /\ remaining_parts' = << >>
    /\ occupied_polygons' = << >>
    /\ UNCHANGED << cutVars, serverVars >>
    /\ UNCHANGED << sheet_width, sheet_height, spacing, dxf_files, file_entities, entry,
                    last_rotations >>

\* bottom_left_fill called on a caller's own list of part records.
BottomLeftFillCall ==
    /\ pc = "idle"
    /\ entry = "bottom_left_fill"
    /\ parts' = LoadParts(dxf_files, Len(dxf_files))
    /\ idx' = 0
    /\ placed_parts' = << >>
    /\ remaining_parts' = << >>
    /\ occupied_polygons' = << >>
    /\ pc' = "fill"
    /\ UNCHANGED << cutVars, serverVars >>
    /\ UNCHANGED << sheet_width, sheet_height, spacing, dxf_files, file_entities, entry,
                    unfittable_parts, result, last_rotations >>

\* The loop body where the new record is put in front of the placed list.
PlacePartInFront ==
    /\ pc = "fill"
    /\ idx < Len(parts)
    /\ LET part == parts[idx + 1]
           best_position == FindBestPositionWithRotation(part, occupied_polygons)
       IN  /\ best_position.found
           /\ placed_parts' = << PlacedRecord(part, best_position) >> \o placed_parts
           /\ occupied_polygons' =
                  Append(occupied_polygons,
                         Translate(best_position.polygon, best_position.x,
                                   best_position.y))
           /\ last_rotations' = RotationsOf(part)
    /\ idx' = idx + 1
    /\ UNCHANGED << cutVars, serverVars >>
    /\ UNCHANGED << sheet_width, sheet_height, spacing, dxf_files, file_entities, entry, pc,
                    parts, remaining_parts, unfittable_parts, result >>

\* One iteration of the loop of bottom_left_fill whose search succeeds.
PlacePart ==
    /\ pc = "fill"
    /\ idx < Len(parts)
    /\ LET part == parts[idx + 1]
           best_position == FindBestPositionWithRotation(part, occupied_polygons)
       IN  /\ best_position.found
           /\ placed_parts' = Append(placed_parts, PlacedRecord(part, best_position))
           /\ occupied_polygons' =
                  Append(occupied_polygons,
                         Translate(best_position.polygon, best_position.x,
                                   best_position.y))
           /\ last_rotations' = RotationsOf(part)
    /\ idx' = idx + 1
    /\ UNCHANGED << cutVars, serverVars >>
    /\ UNCHANGED << sheet_width, sheet_height, spacing, dxf_files, file_entities, entry, pc,
                    parts, remaining_parts, unfittable_parts, result >>

\* The loop ending at the first part that finds no position.
LeavePartAndStop ==
    /\ pc = "fill"
    /\ idx < Len(parts)
    /\ ~(\E k \in 1 .. 4 :
            LET part == parts[idx + 1]
                angle == (k - 1) * 90
                rotated == { LET a == RotatePoint(<<r[1], r[2]>>, angle,
                                                  part.collision_centroid)
                                 b == RotatePoint(<<r[3], r[4]>>, angle,
                                                  part.collision_centroid)
                             IN  << Min(a[1], b[1]), Min(a[2], b[2]),
                                    Max(a[1], b[1]), Max(a[2], b[2]) >>
                             : r \in part.polygon }
                bounds == Bounds(rotated)
                polygon == Translate(rotated, -bounds[1], -bounds[2])
                w == bounds[3] - bounds[1]
                h == bounds[4] - bounds[2]
                step_size == Max(Mm(1), Min(w, h) \div StepDivisor)
            IN  /\ w + spacing <= sheet_width
                /\ h + spacing <= sheet_height
                /\ \E x \in Arange(sheet_width - w + Mm(1), step_size),
                      y \in Arange(sheet_height - h + Mm(1), step_size) :
                       /\ x + w <= sheet_width
                       /\ y + h <= sheet_height
                       /\ \A o \in 1 .. Len(occupied_polygons) :
                              ~IntersectsBuffered(Translate(polygon, x, y),
                                                  occupied_polygons[o], spacing))
    /\ remaining_parts' = Append(remaining_parts, parts[idx + 1])
    /\ idx' = idx + 1
    /\ pc' = "done"
    /\ UNCHANGED << cutVars, serverVars >>
    /\ UNCHANGED << sheet_width, sheet_height, spacing, dxf_files, file_entities, entry,
                    parts, placed_parts, occupied_polygons, unfittable_parts,
                    result, last_rotations >>

\* One iteration of the loop of bottom_left_fill whose search finds nothing.
LeavePart ==
    /\ pc = "fill"
    /\ idx < Len(parts)
    /\ LET part == parts[idx + 1]
           best_position == FindBestPositionWithRotation(part, occupied_polygons)
       IN  /\ ~best_position.found
           /\ remaining_parts' = Append(remaining_parts, part)
           /\ last_rotations' = RotationsOf(part)
    /\ idx' = idx + 1
    /\ UNCHANGED << cutVars, serverVars >>
    /\ UNCHANGED << sheet_width, sheet_height, spacing, dxf_files, file_entities, entry, pc,
                    parts, placed_parts, occupied_polygons, unfittable_parts,
                    result >>

\* DXFNester._translate_entity; the points of a polyline are kept as a set.
TranslateEntity(entity, dx, dy) ==
    CASE entity.type = "LINE" ->
           [ entity EXCEPT !.start = << @[1] + dx, @[2] + dy >>,
                           !.end = << @[1] + dx, @[2] + dy >> ]
      [] entity.type = "CIRCLE" ->
           [ entity EXCEPT !.center = << @[1] + dx, @[2] + dy >> ]
      [] entity.type = "LWPOLYLINE" ->
           [ entity EXCEPT !.points = { << q[1] + dx, q[2] + dy >> : q \in @ } ]

\* DXFNester._rotate_entity
RotateEntity(entity, angle_degrees, c) ==
    CASE entity.type = "LINE" ->
           [ entity EXCEPT !.start = RotatePoint(@, angle_degrees, c),
                           !.end = RotatePoint(@, angle_degrees, c) ]
      [] entity.type = "CIRCLE" ->
           [ entity EXCEPT !.center = RotatePoint(@, angle_degrees, c) ]
      [] entity.type = "LWPOLYLINE" ->
           [ entity EXCEPT !.points = { RotatePoint(q, angle_degrees, c) : q \in @ } ]

\* The points _get_entity_bounds collects for one entity.
EntityPoints(entity) ==
    CASE entity.type = "LINE" -> { entity.start, entity.end }
      [] entity.type = "CIRCLE" -> { entity.center }
      [] entity.type = "LWPOLYLINE" -> entity.points

NoBounds == << >>

\* The bounding box of a set of points, None when there is none.
PointBounds(all_points) ==
    IF all_points = {} THEN NoBounds
    ELSE << SetMin({ q[1] : q \in all_points }), SetMin({ q[2] : q \in all_points }),
            SetMax({ q[1] : q \in all_points }), SetMax({ q[2] : q \in all_points }) >>

\* DXFNester._get_entity_bounds
GetEntityBounds(entities) ==
    PointBounds(UNION { EntityPoints(entities[k]) : k \in 1 .. Len(entities) })

\* Every entity of the list translated by dx, dy.
TranslateEntities(entities, dx, dy) ==
    [ k \in 1 .. Len(entities) |-> TranslateEntity(entities[k], dx, dy) ]

\* Step 2A of _add_transformed_entities: rotation about collision_centroid.
RotateEntities(entities, rotation_angle, collision_centroid) ==
    IF rotation_angle # 0
    THEN [ k \in 1 .. Len(entities) |->
             RotateEntity(entities[k], rotation_angle, collision_centroid) ]
    ELSE entities

\* Step 2B with the bounds of the rotated entities given.
ReNormalizeTo(entities, all_entity_bounds) ==
    IF all_entity_bounds # NoBounds
    THEN TranslateEntities(entities, -all_entity_bounds[1], -all_entity_bounds[2])
    ELSE entities

\* Step 2B of _add_transformed_entities: re-normalize to the origin.
ReNormalizeEntities(entities, rotation_angle) ==
    IF rotation_angle # 0
    THEN ReNormalizeTo(entities, GetEntityBounds(entities))
    ELSE entities

\* DXFNester._add_transformed_entities: the entities added to the modelspace.
AddTransformedEntities(item) ==
    TranslateEntities(
        ReNormalizeEntities(
            RotateEntities(
                TranslateEntities(item.original_entities,
                                  -item.normalization_offset[1],
                                  -item.normalization_offset[2]),
                item.rotation, item.collision_centroid),
            item.rotation),
        item.x, item.y)

\* DXFNester.generate_nested_dxf: the entities of each placed item.
GenerateNestedDxf(placed_items) ==
    [ k \in 1 .. Len(placed_items) |-> AddTransformedEntities(placed_items[k]) ]

RECURSIVE SumOriginalArea(_, _)
\* sum(part['original_polygon'].area for part in placed_parts)
SumOriginalArea(placed, n) ==
    IF n = 0 THEN 0
    ELSE PolygonArea(placed[n].original_polygon) + SumOriginalArea(placed, n - 1)

\* DXFNester.process_nesting_result_simple (utilization in whole percent)
ProcessNestingResultSimple(placed, unfittable) ==
    IF placed = << >>
    THEN [ nested_dxf |-> FALSE, utilization |-> 0,
           unfittable_parts |-> unfittable, placed_count |-> 0,
           message |-> "No parts could be placed" ]
    ELSE LET total_part_area == SumOriginalArea(placed, Len(placed))
             sheet_area == sheet_width * sheet_height
         IN  [ nested_dxf |-> GenerateNestedDxf(placed),
               utilization |-> IF sheet_area > 0
                               THEN total_part_area \div (sheet_area \div 100)
                               ELSE 0,
               unfittable_parts |-> unfittable,
               placed_count |-> Len(placed),
               message |-> "Successfully nested" ]

\* bottom_left_fill returns; nest_parts extends unfittable_parts and
\* builds its result (lines 314, 272-277).
FillReturn ==
    /\ pc = "fill"
    /\ idx = Len(parts)
    /\ pc' = "done"
    /\ IF entry = "nest_parts"
       THEN LET unfittable ==
                    unfittable_parts \o
                    [ i \in 1 .. Len(remaining_parts) |-> remaining_parts[i].file ]
            IN  /\ unfittable_parts' = unfittable
                /\ result' = ProcessNestingResultSimple(placed_parts, unfittable)
       ELSE UNCHANGED << unfittable_parts, result >>
    /\ UNCHANGED << cutVars, serverVars >>
    /\ UNCHANGED << sheet_width, sheet_height, spacing, dxf_files, file_entities, entry, parts,
                    idx, placed_parts, remaining_parts, occupied_polygons,
                    last_rotations >>

----------------------------------------------------------------------------
(* Inputs of the nesting runs *)

Box(x, y, w, h) == << Mm(x), Mm(y), Mm(x + w), Mm(y + h) >>

\* Small parts, in their drawings' own coordinates.
SmallShapes ==
    { { Box(0, 0, 1, 1) },
      { Box(0, 0, 1, 3) },
      { Box(-1, -1, 2, 2) },
      { Box(2, 1, 3, 1), Box(2, 2, 1, 1) },
      { Box(0, 0, 5, 5) },
      NoGeometry }

\* The 100 x 100 mm square of the scenarios, and parts to go with it.
SheetShapes ==
    { { Box(0, 0, 100, 100) },
      { Box(30, 40, 100, 100) },
      { Box(0, 0, 600, 450) },
      { Box(0, 0, 1100, 600) } }

\* Parts whose grid step is a fraction of a millimetre.
FineShapes ==
    { { Box(0, 0, 15, 15) }, { Box(5, 5, 15, 25) } }

\* A strip drawn lying down and a small square, for a 5 x 3 mm sheet.
WideShapes ==
    { { Box(0, 0, 3, 1) }, { Box(0, 0, 1, 1) } }

Families ==
    { [ w |-> Mm(d[1]), h |-> Mm(d[2]), s |-> Mm(s), shapes |-> SmallShapes ] :
          d \in { <<4, 2>>, <<3, 3>> }, s \in 0 .. MaxSpacing }
    \cup { [ w |-> Mm(5), h |-> Mm(3), s |-> Mm(0), shapes |-> WideShapes ],
           [ w |-> Mm(1000), h |-> Mm(500), s |-> Mm(2), shapes |-> SheetShapes ],
           [ w |-> Mm(31), h |-> Mm(40), s |-> Mm(1), shapes |-> FineShapes ] }

\* The vertices of the polyline a collision polygon was read from, with the
\* corners of the rectangles the polygon is made of.
Outline(collision_polygon) ==
    [ type |-> "LWPOLYLINE",
      points |-> UNION { { << r[1], r[2] >>, << r[3], r[2] >>, << r[3], r[4] >>,
                           << r[1], r[4] >> } : r \in collision_polygon } ]

\* A centre line drawn across the part, 1 mm past its outline on the left.
CentreLine(collision_polygon) ==
    LET bounds == Bounds(collision_polygon)
        mid_y == (bounds[2] + bounds[4]) \div 2
    IN  [ type |-> "LINE", start |-> << bounds[1] - Mm(1), mid_y >>,
          end |-> << bounds[3], mid_y >> ]

\* A bore marked by a circle at the middle of the part.
Bore(collision_polygon) ==
    LET bounds == Bounds(collision_polygon)
    IN  [ type |-> "CIRCLE",
          center |-> << (bounds[1] + bounds[3]) \div 2, (bounds[2] + bounds[4]) \div 2 >> ]

\* The entity lists a file with the given collision polygon may hold: its
\* outline alone, or for the 1 x 3 mm part also a centre line and a bore.
EntityLists(collision_polygon) ==
    IF collision_polygon = NoGeometry THEN { << >> }
    ELSE { << Outline(collision_polygon) >> }
         \cup IF collision_polygon = { Box(0, 0, 1, 3) }
              THEN { << Outline(collision_polygon), CentreLine(collision_polygon),
                        Bore(collision_polygon) >> }
              ELSE {}

\* The entity lists of a list of files, one choice for each file.
EntityFileLists(files) ==
    { [ n \in 1 .. Len(files) |->
          IF with_marks[n] /\ files[n] = { Box(0, 0, 1, 3) }
          THEN << Outline(files[n]), CentreLine(files[n]), Bore(files[n]) >>
          ELSE IF files[n] = NoGeometry THEN << >> ELSE << Outline(files[n]) >> ]
      : with_marks \in [ 1 .. Len(files) -> BOOLEAN ] }

FileLists(shapes) ==
    UNION { [ 1 .. n -> shapes ] : n \in 1 .. MaxParts }

NestInit ==
    /\ \E f \in Families :
        /\ sheet_width = f.w
        /\ sheet_height = f.h
        /\ spacing = f.s
        /\ dxf_files \in FileLists(f.shapes)
    /\ file_entities \in EntityFileLists(dxf_files)
    /\ entry \in { "nest_parts", "bottom_left_fill" }
    /\ pc = "idle"
    /\ parts = << >>
    /\ idx = 0
    /\ placed_parts = << >>
    /\ remaining_parts = << >>
    /\ occupied_polygons = << >>
    /\ unfittable_parts = << >>
    /\ result = NoResult
    /\ last_rotations = << >>
    /\ cut_call = NoCall
    /\ cut_state = "off"
    /\ cut_out = NoOutput
    /\ nesting_status = Ready
    /\ requests = << >>

Init == NestInit

Next ==
    \/ NestPartsLoad
    \/ BottomLeftFillCall
    \/ PlacePart
    \/ LeavePart
    \/ FillReturn

Spec == Init /\ [][Next]_vars

----------------------------------------------------------------------------
(* BoringOperation (operations/boring.py)                                  *)
(* Thickness and depth per pass are whole millimetres; the depth of a      *)
(* boring move counts 1/HelixUnit mm, the descent of one helix point.      *)

points_per_rev == 36
HelixRevsPerMm == 2
HelixUnit == points_per_rev * HelixRevsPerMm

\* Every pass goes the full depth_per_pass deeper.
PassDepthUnclamped(depth_per_pass, material_thickness, current_depth) ==
    depth_per_pass

\* pass_depth = min(depth_per_pass, material_thickness - current_depth)
PassDepth(depth_per_pass, material_thickness, current_depth) ==
    Min(depth_per_pass, material_thickness - current_depth)

\* BoringOperation._generate_helical_boring
GenerateHelicalBoring(settings, hole_center, hole_radius, tool_radius, start_depth, end_depth) ==
    LET cut_radius == hole_radius - tool_radius
        depth_delta == end_depth - start_depth
        total_points == depth_delta * HelixRevsPerMm * points_per_rev
    IN  [ n \in 1 .. (total_points + 1) |->
            LET i == n - 1
            IN  [ type |-> "helical_move",
                  position |-> [ center |-> hole_center, radius |-> cut_radius,
                                 step |-> i % points_per_rev ],
                  depth |-> -(start_depth * HelixUnit
                              + ((end_depth - start_depth) * HelixUnit * i)
                                \div total_points),
                  feed_rate |-> settings.feed_rate,
                  operation |-> IF i > 0 THEN "G01" ELSE "G00" ] ]

\* The moves of one pass, with the helix used for an exact fit too.
BoringPassMovesAlwaysHelical(settings, hole_center, hole_radius, tool_radius, start_depth, current_depth) ==
    LET total_points == (current_depth - start_depth) * HelixUnit
    IN  [ n \in 1 .. (total_points + 1) |->
            [ type |-> "helical_move",
              position |-> [ center |-> hole_center, radius |-> 0,
                             step |-> (n - 1) % points_per_rev ],
              depth |-> -(start_depth * HelixUnit + (n - 1)),
              feed_rate |-> settings.feed_rate,
              operation |-> IF n > 1 THEN "G01" ELSE "G00" ] ]

\* The moves of one pass: a plunge for an exact fit, a helix otherwise
\* (boring.py lines 37-51).
BoringPassMoves(settings, hole_center, hole_radius, tool_radius, start_depth, current_depth) ==
    IF hole_radius = tool_radius
    THEN << [ type |-> "boring_plunge",
              position |-> [ center |-> hole_center, radius |-> 0, step |-> 0 ],
              depth |-> -(current_depth * HelixUnit),
              feed_rate |-> settings.plunge_rate,
              operation |-> "G01" ] >>
    ELSE GenerateHelicalBoring(settings, hole_center, hole_radius, tool_radius,
                               start_depth, current_depth)

\* A rapid_retract move of the boring operation to height mm above the surface.
BoringRetract(hole_center, height) ==
    [ type |-> "rapid_retract",
      position |-> [ center |-> hole_center, radius |-> 0, step |-> 0 ],
      depth |-> height * HelixUnit,
      feed_rate |-> 0,
      operation |-> "G00" ]

RECURSIVE BoringLoop(_, _, _, _, _, _, _)
\* The pass loop of BoringOperation.generate_toolpath from pass_num on.
BoringLoop(call, tool_radius, num_passes, pass_num, current_depth, toolpaths, pass_depths) ==
    IF pass_num >= num_passes
    THEN [ toolpaths |-> toolpaths, pass_depths |-> pass_depths ]
    ELSE LET settings == call.settings
             pass_depth == PassDepth(settings.depth_per_pass,
                                     call.material_thickness, current_depth)
             depth == current_depth + pass_depth
             cut == BoringPassMoves(settings, call.hole_center, call.hole_radius,
                                    tool_radius, depth - pass_depth, depth)
             peck == IF settings.pecking /\ pass_num < num_passes - 1
                     THEN << BoringRetract(call.hole_center, 2) >>
                     ELSE << >>
         IN  BoringLoop(call, tool_radius, num_passes, pass_num + 1, depth,
                        toolpaths \o cut \o peck, Append(pass_depths, depth))

\* BoringOperation.generate_toolpath, for a hole the tool can bore.
BoringToolpath(call) ==
    LET num_passes == CeilDiv(call.material_thickness, call.settings.depth_per_pass)
        tool_radius == call.settings.tool_diameter \div 2
        looped == BoringLoop(call, tool_radius, num_passes, 0, 0, << >>, << >>)
    IN  [ toolpaths |-> Append(looped.toolpaths, BoringRetract(call.hole_center, 5)),
          pass_depths |-> looped.pass_depths ]

\* BoringOperation.generate_toolpath
BoringGenerateToolpath ==
    /\ cut_state = "ready"
    /\ cut_call.op = "boring"
    /\ IF cut_call.hole_radius < cut_call.settings.tool_diameter \div 2
       THEN /\ cut_state' = "raised"
            /\ cut_out' = NoOutput
       ELSE /\ cut_state' = "returned"
            /\ cut_out' = BoringToolpath(cut_call)
    /\ UNCHANGED cut_call
    /\ UNCHANGED << nestVars, serverVars >>

----------------------------------------------------------------------------
(* SlottingOperation (operations/slotting.py)                              *)
(* Thickness and depth per pass are whole millimetres; the x, y and depth  *)
(* of a slotting move count 1/num_points mm, the descent of one ramp       *)
(* point per mm of target depth.  The offset paths of a closed slot are    *)
(* what shapely returns; an open slot has its own points as only path.     *)

num_points == 10

\* SlottingOperation._generate_ramp_entry
GenerateRampEntry(settings, start_point, target_depth) ==
    [ n \in 1 .. (num_points + 1) |->
        [ type |-> "ramp_move",
          position |-> << start_point[1] * num_points
                          - Abs(target_depth) * 3 * (num_points - (n - 1)),
                          start_point[2] * num_points >>,
          depth |-> target_depth * (n - 1),
          feed_rate |-> settings.plunge_rate,
          operation |-> "G01" ] ]

\* The moves of one offset path in one pass (slotting.py lines 47-62).
SlotPathMoves(settings, offset_path, current_depth) ==
    GenerateRampEntry(settings, offset_path[1], -current_depth)
    \o [ k \in 1 .. (Len(offset_path) - 1) |->
           [ type |-> "slot_cut",
             position |-> << offset_path[k + 1][1] * num_points,
                             offset_path[k + 1][2] * num_points >>,
             depth |-> -(current_depth * num_points),
             feed_rate |-> settings.feed_rate,
             operation |-> "G01" ] ]

RECURSIVE SlotPassMoves(_, _, _, _)
\* for offset_path in offset_paths, over the first n paths.
SlotPassMoves(settings, offset_paths, n, current_depth) ==
    IF n = 0 THEN << >>
    ELSE SlotPassMoves(settings, offset_paths, n - 1, current_depth)
         \o SlotPathMoves(settings, offset_paths[n], current_depth)

\* SlottingOperation._generate_offset_paths
GenerateOffsetPaths(call) ==
    IF call.is_closed THEN call.offsets ELSE << call.slot_contour >>

RECURSIVE SlottingLoop(_, _, _, _, _, _, _)
\* The pass loop of SlottingOperation.generate_toolpath from pass_num on.
SlottingLoop(call, offset_paths, num_passes, pass_num, current_depth, toolpaths, pass_depths) ==
    IF pass_num >= num_passes
    THEN [ toolpaths |-> toolpaths, pass_depths |-> pass_depths ]
    ELSE SlottingLoop(call, offset_paths, num_passes, pass_num + 1,
                      current_depth
                      + PassDepth(call.settings.depth_per_pass,
                                  call.material_thickness, current_depth),
                      toolpaths
                      \o SlotPassMoves(call.settings, offset_paths, Len(offset_paths),
                                       current_depth
                                       + PassDepth(call.settings.depth_per_pass,
                                                   call.material_thickness,
                                                   current_depth)),
                      Append(pass_depths,
                             current_depth
                             + PassDepth(call.settings.depth_per_pass,
                                         call.material_thickness, current_depth)))

\* The move list with the final retract (slotting.py lines 64-72).
SlotRetracted(looped, last_path) ==
    [ toolpaths |->
          Append(looped.toolpaths,
                 [ type |-> "rapid_retract",
                   position |-> << last_path[Len(last_path)][1] * num_points,
                                   last_path[Len(last_path)][2] * num_points >>,
                   depth |-> 5 * num_points,
                   feed_rate |-> 0,
                   operation |-> "G00" ]),
      pass_depths |-> looped.pass_depths ]

\* SlottingOperation.generate_toolpath for the offset paths found.
SlottingToolpath(call, offset_paths) ==
    SlotRetracted(SlottingLoop(call, offset_paths,
                               CeilDiv(call.material_thickness,
                                       call.settings.depth_per_pass),
                               0, 0, << >>, << >>),
                  offset_paths[Len(offset_paths)])

\* SlottingOperation.generate_toolpath; without an offset path
\* offset_paths[-1] raises IndexError.
SlottingGenerateToolpath ==
    /\ cut_state = "ready"
    /\ cut_call.op = "slotting"
    /\ IF GenerateOffsetPaths(cut_call) = << >>
       THEN /\ cut_state' = "raised"
            /\ cut_out' = NoOutput
       ELSE /\ cut_state' = "returned"
            /\ cut_out' = SlottingToolpath(cut_call, GenerateOffsetPaths(cut_call))
    /\ UNCHANGED cut_call
    /\ UNCHANGED << nestVars, serverVars >>

----------------------------------------------------------------------------
(* ContouringOperation (operations/contouring.py); depths in mm.           *)
(* A vertex of an offset contour is the vertex of the part contour it was  *)
(* offset from, with the signed offset.                                    *)

\* ContouringOperation._generate_offset_contour
GenerateOffsetContour(contour, offset, climb) ==
    LET offset_value == IF climb THEN -offset ELSE offset
    IN  [ k \in 1 .. Len(contour) |-> [ point |-> contour[k], offset |-> offset_value ] ]

\* ContouringOperation._generate_lead_in
GenerateLeadIn(settings, start_point) ==
    << [ type |-> "lead_in", position |-> start_point,
         lead |-> settings.tool_diameter, depth |-> 5,
         feed_rate |-> settings.feed_rate, operation |-> "G00",
         is_finish_pass |-> FALSE ] >>

\* ContouringOperation._generate_lead_out
GenerateLeadOut(settings, end_point) ==
    << [ type |-> "lead_out", position |-> end_point,
         lead |-> settings.tool_diameter, depth |-> 5,
         feed_rate |-> settings.feed_rate * 2, operation |-> "G00",
         is_finish_pass |-> FALSE ] >>

\* ContouringOperation._generate_continuous_path
GenerateContinuousPath(settings, contour, depth) ==
    GenerateLeadIn(settings, contour[1])
    \o << [ type |-> "plunge", position |-> contour[1], lead |-> 0,
            depth |-> depth, feed_rate |-> settings.plunge_rate,
            operation |-> "G01", is_finish_pass |-> FALSE ] >>
    \o [ k \in 1 .. (Len(contour) - 1) |->
            [ type |-> "contour_cut", position |-> contour[k + 1], lead |-> 0,
              depth |-> depth, feed_rate |-> settings.feed_rate,
              operation |-> "G01", is_finish_pass |-> FALSE ] ]
    \o << [ type |-> "contour_cut", position |-> contour[1], lead |-> 0,
            depth |-> depth, feed_rate |-> settings.feed_rate,
            operation |-> "G01", is_finish_pass |-> FALSE ] >>
    \o GenerateLeadOut(settings, contour[1])

\* ContouringOperation._generate_tabbed_path: the continuous path, the loop
\* over the tabs changes nothing.
GenerateTabbedPath(settings, contour, depth, tabs) ==
    GenerateContinuousPath(settings, contour, depth)

RECURSIVE ContouringLoop(_, _, _, _, _, _, _)
\* The roughing loop of ContouringOperation.generate_toolpath from pass_num on.
ContouringLoop(call, roughing_contour, num_passes, pass_num, current_depth, toolpaths, pass_depths) ==
    IF pass_num >= num_passes
    THEN [ toolpaths |-> toolpaths, pass_depths |-> pass_depths ]
    ELSE LET settings == call.settings
             pass_depth == PassDepth(settings.depth_per_pass,
                                     call.material_thickness, current_depth)
             depth == current_depth + pass_depth
             path == IF call.tabs # << >> /\ pass_num = num_passes - 1
                     THEN GenerateTabbedPath(settings, roughing_contour, -depth,
                                             call.tabs)
                     ELSE GenerateContinuousPath(settings, roughing_contour, -depth)
         IN  ContouringLoop(call, roughing_contour, num_passes, pass_num + 1, depth,
                            toolpaths \o path, Append(pass_depths, depth))

\* ContouringOperation.generate_toolpath
ContouringToolpath(call) ==
    LET settings == call.settings
        tool_radius == settings.tool_diameter \div 2
        num_passes == CeilDiv(call.material_thickness, settings.depth_per_pass)
        offset_contour == GenerateOffsetContour(call.part_contour, tool_radius,
                                                settings.climb_milling)
        finish_allowance == IF settings.finish_pass
                            THEN settings.finish_allowance ELSE 0
        roughing_contour ==
            IF settings.finish_pass
            THEN GenerateOffsetContour(call.part_contour,
                                       tool_radius + finish_allowance,
                                       settings.climb_milling)
            ELSE offset_contour
        looped == ContouringLoop(call, roughing_contour, num_passes, 0, 0,
                                 << >>, << >>)
        finish_path ==
            IF settings.finish_pass /\ finish_allowance > 0
            THEN LET path == IF call.tabs # << >>
                             THEN GenerateTabbedPath(settings, offset_contour,
                                                     -call.material_thickness,
                                                     call.tabs)
                             ELSE GenerateContinuousPath(settings, offset_contour,
                                                         -call.material_thickness)
                 IN  [ k \in 1 .. Len(path) |->
                         [ path[k] EXCEPT !.is_finish_pass = TRUE ] ]
            ELSE << >>
        cut == looped.toolpaths \o finish_path
    IN  [ toolpaths |->
              Append(cut, [ type |-> "rapid_retract",
                            position |-> cut[Len(cut)].position, lead |-> 0,
                            depth |-> 5, feed_rate |-> 0, operation |-> "G00",
                            is_finish_pass |-> FALSE ]),
          pass_depths |-> looped.pass_depths ]

\* ContouringOperation.generate_toolpath
ContouringGenerateToolpath ==
    /\ cut_state = "ready"
    /\ cut_call.op = "contouring"
    /\ cut_state' = "returned"
    /\ cut_out' = ContouringToolpath(cut_call)
    /\ UNCHANGED cut_call
    /\ UNCHANGED << nestVars, serverVars >>

----------------------------------------------------------------------------
(* ToolpathGenerator (toolpath_generator.py)                               *)
(* Contours are lists of axis-parallel 'line' geometries with whole-mm     *)
(* end points.  Distances along the perimeter and the x, y of the points   *)
(* of a contour toolpath count 1/scale mm, scale = 6 * num_tabs, which     *)
(* makes i * tab_spacing / 3 and tab_spacing / 2 whole numbers.            *)

Sign(a) == IF a > 0 THEN 1 ELSE IF a < 0 THEN -1 ELSE 0

\* ToolpathGenerator._get_segment_length, of an axis-parallel line
GetSegmentLength(geom) ==
    Abs(geom.end[1] - geom.start[1]) + Abs(geom.end[2] - geom.start[2])

RECURSIVE CalculateContourLength(_, _)
\* ToolpathGenerator._calculate_contour_length over contour[1..n]
CalculateContourLength(contour, n) ==
    IF n = 0 THEN 0
    ELSE CalculateContourLength(contour, n - 1) + GetSegmentLength(contour[n])

\* ToolpathGenerator._get_end_direction / _get_start_direction of a line
GetDirection(geom) ==
    IF GetSegmentLength(geom) > 0
    THEN << Sign(geom.end[1] - geom.start[1]), Sign(geom.end[2] - geom.start[2]) >>
    ELSE << 1, 0 >>

\* ToolpathGenerator._calculate_angle_change, in degrees
CalculateAngleChange(geom1, geom2) ==
    LET dir1 == GetDirection(geom1)
        dir2 == GetDirection(geom2)
        dot_product == dir1[1] * dir2[1] + dir1[2] * dir2[2]
        angle == CASE dot_product = 1 -> 0
                   [] dot_product = 0 -> 90
                   [] dot_product = -1 -> 180
        cross_product == dir1[1] * dir2[2] - dir1[2] * dir2[1]
    IN  IF cross_product < 0 THEN -angle ELSE angle

RECURSIVE FindCornersFrom(_, _, _, _, _)
\* The loop of ToolpathGenerator._find_corners from segment i on (in mm).
FindCornersFrom(tabs_config, contour, i, current_distance, corners) ==
    IF i > Len(contour) THEN corners
    ELSE LET prev_idx == IF i = 1 THEN Len(contour) ELSE i - 1
             angle_change == CalculateAngleChange(contour[prev_idx], contour[i])
         IN  FindCornersFrom(
                 tabs_config, contour, i + 1,
                 current_distance + GetSegmentLength(contour[i]),
                 IF Abs(angle_change) > tabs_config.corner_angle_threshold
                 THEN Append(corners, current_distance) ELSE corners)

\* ToolpathGenerator._find_corners
FindCorners(tabs_config, contour) ==
    FindCornersFrom(tabs_config, contour, 1, 0, << >>)

\* min(abs(a - b), abs(a - b + total), abs(a - b - total))
WrapDistance(a, b, total_length) ==
    Min(Abs(a - b), Min(Abs(a - b + total_length), Abs(a - b - total_length)))

\* ToolpathGenerator._is_valid_tab_position
IsValidTabPosition(distance, corners, total_length, exclusion_zone) ==
    \A k \in 1 .. Len(corners) :
        ~(WrapDistance(distance, corners[k], total_length) < exclusion_zone)

RECURSIVE AdjustFrom(_, _, _, _, _)
\* The loop of _adjust_position_away_from_corners from corner k on.
AdjustFrom(position, corners, k, total_length, exclusion_zone) ==
    IF k > Len(corners) THEN position
    ELSE IF WrapDistance(position, corners[k], total_length) < exclusion_zone
         THEN LET option1 == (corners[k] + exclusion_zone) % total_length
                  option2 == (corners[k] - exclusion_zone) % total_length
                  dist1 == WrapDistance(position, option1, total_length)
                  dist2 == WrapDistance(position, option2, total_length)
              IN  IF dist1 < dist2 THEN option1 ELSE option2
         ELSE AdjustFrom(position, corners, k + 1, total_length, exclusion_zone)

\* ToolpathGenerator._adjust_position_away_from_corners
AdjustPositionAwayFromCorners(position, corners, total_length, exclusion_zone) ==
    AdjustFrom(position, corners, 1, total_length, exclusion_zone)

\* seq with v inserted before the first element greater than v.
InsertAscending(seq, v) ==
    LET k == Cardinality({ i \in 1 .. Len(seq) : seq[i] <= v })
    IN  SubSeq(seq, 1, k) \o << v >> \o SubSeq(seq, k + 1, Len(seq))

RECURSIVE SortAscending(_, _)
\* candidate_positions.sort()
SortAscending(seq, n) ==
    IF n = 0 THEN << >> ELSE InsertAscending(SortAscending(seq, n - 1), seq[n])

RECURSIVE SelectPositions(_, _, _, _)
\* The while loop that adds the candidate farthest from those selected.
SelectPositions(candidate_positions, selected_positions, num_tabs, total_length) ==
    IF ~(Len(selected_positions) < num_tabs) THEN selected_positions
    ELSE LET MinDist(k) ==
                 SetMin({ Min(Abs(candidate_positions[k] - selected_positions[j]),
                              total_length
                              - Abs(candidate_positions[k] - selected_positions[j]))
                          : j \in 1 .. Len(selected_positions) })
             better == { k \in 1 .. Len(candidate_positions) :
                           /\ \A j \in 1 .. Len(selected_positions) :
                                  selected_positions[j] # candidate_positions[k]
                           /\ MinDist(k) > 0 }
         IN  IF better = {} THEN selected_positions
             ELSE LET best_min_dist == SetMax({ MinDist(k) : k \in better })
                      best == SetMin({ k \in better : MinDist(k) = best_min_dist })
                  IN  SelectPositions(candidate_positions,
                                      Append(selected_positions,
                                             candidate_positions[best]),
                                      num_tabs, total_length)

\* ToolpathGenerator._create_tab_on_segment, on a line; distance and the
\* result in 1/scale mm.
CreateTabOnSegment(geom, distance, tab_width, scale) ==
    LET total_length == GetSegmentLength(geom)
        center_x == geom.start[1] * scale
                    + ((geom.end[1] - geom.start[1]) * distance) \div total_length
        center_y == geom.start[2] * scale
                    + ((geom.end[2] - geom.start[2]) * distance) \div total_length
        dx == (geom.end[1] - geom.start[1]) \div total_length
        dy == (geom.end[2] - geom.start[2]) \div total_length
        half_width == (tab_width * scale) \div 2
    IN  [ start_point |-> << center_x - dx * half_width, center_y - dy * half_width >>,
          end_point |-> << center_x + dx * half_width, center_y + dy * half_width >> ]

RECURSIVE TabAt(_, _, _, _, _, _)
\* The segment search for one selected position (lines 210-228): the tab
\* created on the first segment that reaches target_distance, if any.
TabAt(tabs_config, contour, j, current_distance, target_distance, scale) ==
    IF j > Len(contour) THEN << >>
    ELSE LET segment_length == GetSegmentLength(contour[j]) * scale
         IN  IF current_distance + segment_length >= target_distance
             THEN LET ends == CreateTabOnSegment(contour[j],
                                                 target_distance - current_distance,
                                                 tabs_config.width, scale)
                  IN  << [ start_point |-> ends.start_point,
                           end_point |-> ends.end_point,
                           height |-> tabs_config.height,
                           center_distance |-> target_distance ] >>
             ELSE TabAt(tabs_config, contour, j + 1,
                        current_distance + segment_length, target_distance, scale)

RECURSIVE CreateTabs(_, _, _, _, _)
\* The loop over selected_positions[1..n] that creates the tabs.
CreateTabs(tabs_config, contour, selected_positions, n, scale) ==
    IF n = 0 THEN << >>
    ELSE CreateTabs(tabs_config, contour, selected_positions, n - 1, scale)
         \o TabAt(tabs_config, contour, 1, 0, selected_positions[n], scale)

\* The fallback of _calculate_tab_positions (lines 197-205).
FallbackPositions(num_tabs, tab_spacing, corners, total_length, exclusion_zone) ==
    [ n \in 1 .. num_tabs |->
        AdjustPositionAwayFromCorners((n - 1) * tab_spacing + tab_spacing \div 2,
                                      corners, total_length, exclusion_zone) ]

\* num_tabs = max(min_tabs_per_part, int(total_length / spacing))
NumTabs(tabs_config, total_length) ==
    Max(tabs_config.min_tabs_per_part, total_length \div tabs_config.spacing)

\* The valid ones of the 3 * num_tabs candidate positions (lines 159-164).
CandidatePositions(num_tabs, tab_spacing, corners, length, exclusion_zone) ==
    SelectSeq([ n \in 1 .. (num_tabs * 3) |-> (((n - 1) * tab_spacing) \div 3) % length ],
              LAMBDA d : IsValidTabPosition(d, corners, length, exclusion_zone))

\* The selection among the sorted candidates (lines 172-194).
SpreadPositions(sorted, num_tabs, length) ==
    IF sorted = << >> THEN << >>
    ELSE SelectPositions(sorted, << sorted[1] >>, num_tabs, length)

\* selected_positions of _calculate_tab_positions (lines 166-205).
SelectedPositions(candidate_positions, num_tabs, tab_spacing, corners, length, exclusion_zone) ==
    IF Len(candidate_positions) >= num_tabs
    THEN SpreadPositions(SortAscending(candidate_positions, Len(candidate_positions)),
                         num_tabs, length)
    ELSE FallbackPositions(num_tabs, tab_spacing, corners, length, exclusion_zone)

\* The tabs created at selected_positions (lines 207-228), with the values
\* they were placed by.
TabsAtPositions(tabs_config, contour, selected_positions, scale, corners, num_tabs, fallback) ==
    [ tabs |-> CreateTabs(tabs_config, contour, selected_positions,
                          Len(selected_positions), scale),
      scale |-> scale, corners |-> corners, num_tabs |-> num_tabs,
      fallback |-> fallback ]

\* _calculate_tab_positions with tabs enabled, given num_tabs and the corners
\* found (in mm).
TabsOnContour(tabs_config, contour, total_length, num_tabs, found) ==
    LET scale == 6 * num_tabs
        length == total_length * scale
        exclusion_zone == tabs_config.corner_exclusion_zone * scale
        corners == [ k \in 1 .. Len(found) |-> found[k] * scale ]
        tab_spacing == length \div num_tabs
        candidate_positions == CandidatePositions(num_tabs, tab_spacing, corners,
                                                  length, exclusion_zone)
    IN  TabsAtPositions(tabs_config, contour,
                        SelectedPositions(candidate_positions, num_tabs,
                                          tab_spacing, corners, length,
                                          exclusion_zone),
                        scale, corners, num_tabs,
                        ~(Len(candidate_positions) >= num_tabs))

\* ToolpathGenerator._calculate_tab_positions; total_length in mm.
CalculateTabPositions(tabs_config, contour, total_length) ==
    IF ~tabs_config.enabled
    THEN [ tabs |-> << >>, scale |-> 1, corners |-> << >>, num_tabs |-> 0,
           fallback |-> FALSE ]
    ELSE TabsOnContour(tabs_config, contour, total_length,
                       NumTabs(tabs_config, total_length),
                       FindCorners(tabs_config, contour))

\* ToolpathGenerator._point_on_line (tolerance 0.1 mm); point in 1/scale mm.
PointOnLine(point, start, end, scale) ==
    LET line_len == (Abs(end[1] - start[1]) + Abs(end[2] - start[2])) * scale
        line_vec == << Sign(end[1] - start[1]), Sign(end[2] - start[2]) >>
        point_vec == << point[1] - start[1] * scale, point[2] - start[2] * scale >>
        proj_len == point_vec[1] * line_vec[1] + point_vec[2] * line_vec[2]
        dist == Abs(point_vec[1] * line_vec[2] - point_vec[2] * line_vec[1])
    IN  /\ ~(line_len * 10 < scale)
        /\ ~(proj_len < 0 \/ proj_len > line_len)
        /\ dist * 10 < scale

\* ToolpathGenerator._tab_on_segment
TabOnSegment(geom, tab, scale) ==
    geom.type = "line" /\ PointOnLine(tab.start_point, geom.start, geom.end, scale)

\* ToolpathGenerator._cut_segment, of a line
CutSegment(geom, z, scale) ==
    << << geom.start[1] * scale, geom.start[2] * scale, z >>,
       << geom.end[1] * scale, geom.end[2] * scale, z >> >>

RECURSIVE TabLifts(_, _, _, _)
\* The loop of _cut_segment_with_tabs over the tabs of order[1..n].
TabLifts(tabs, order, n, z) ==
    IF n = 0 THEN << >>
    ELSE LET tab == tabs[order[n]]
         IN  TabLifts(tabs, order, n - 1, z)
             \o << << tab.start_point[1], tab.start_point[2], z.cut >>,
                   << tab.start_point[1], tab.start_point[2], z.tab >>,
                   << tab.end_point[1], tab.end_point[2], z.tab >>,
                   << tab.end_point[1], tab.end_point[2], z.cut >> >>

\* ToolpathGenerator._cut_segment_with_tabs
CutSegmentWithTabs(geom, tabs, order, z_cut, z_tab, scale) ==
    TabLifts(tabs, order, Len(order), [ cut |-> z_cut, tab |-> z_tab ])
    \o << << geom.end[1] * scale, geom.end[2] * scale, z_cut >> >>

RECURSIVE CutContourFrom(_, _, _, _, _, _, _)
\* The loop of _cut_contour_with_tabs from segment g on.
CutContourFrom(tabs_config, contour, tabs, z_depth, scale, g, processed_tabs) ==
    IF g > Len(contour) THEN << >>
    ELSE LET tab_height == z_depth + tabs_config.height
             here == { i \in 1 .. Len(tabs) :
                         i \notin processed_tabs
                         /\ TabOnSegment(contour[g], tabs[i], scale) }
             segment_tabs == SelectSeq([ i \in 1 .. Len(tabs) |-> i ],
                                       LAMBDA i : i \in here)
             cut == IF segment_tabs = << >>
                    THEN CutSegment(contour[g], z_depth, scale)
                    ELSE CutSegmentWithTabs(contour[g], tabs, segment_tabs,
                                            z_depth, tab_height, scale)
         IN  cut \o CutContourFrom(tabs_config, contour, tabs, z_depth, scale,
                                   g + 1, processed_tabs \cup here)

\* ToolpathGenerator._cut_contour_with_tabs
CutContourWithTabs(tabs_config, contour, tabs, z_depth, scale) ==
    CutContourFrom(tabs_config, contour, tabs, z_depth, scale, 1, {})

\* The next depth without the limit of the thickness.
NextDepthUnclamped(current_depth, step_down, thickness) ==
    current_depth + step_down

\* current_depth = min(current_depth + step_down, thickness)
NextDepth(current_depth, step_down, thickness) ==
    Min(current_depth + step_down, thickness)

RECURSIVE StepDownLoop(_, _, _, _, _, _, _)
\* The while loop of _generate_contour_with_tabs from current_depth on.
StepDownLoop(config, contour, tabs, scale, current_depth, points, pass_depths) ==
    IF ~(current_depth < config.material.thickness)
    THEN [ points |-> points, pass_depths |-> pass_depths ]
    ELSE LET depth == NextDepth(current_depth, config.material.step_down,
                                config.material.thickness)
             start_point == << contour[1].start[1] * scale,
                               contour[1].start[2] * scale >>
             pass == << << start_point[1], start_point[2], -depth >> >>
                     \o CutContourWithTabs(config.tabs, contour, tabs, -depth, scale)
                     \o << << start_point[1], start_point[2], -depth >> >>
         IN  StepDownLoop(config, contour, tabs, scale, depth, points \o pass,
                          Append(pass_depths, depth))

\* The Toolpath returned by _generate_contour_with_tabs (lines 84-92), with
\* the passes and the tabs it was made from.
ContourToolpath(config, start_point, looped, total_length, placed) ==
    [ type |-> "contour",
      points |-> Append(looped.points,
                        << start_point[1], start_point[2], config.safety_height >>),
      feed_rate |-> config.material.feed_rate,
      plunge_rate |-> config.material.plunge_rate,
      pass_depths |-> looped.pass_depths,
      total_length |-> total_length,
      scale |-> placed.scale,
      corners |-> placed.corners,
      tabs |-> placed.tabs,
      num_tabs |-> placed.num_tabs,
      fallback |-> placed.fallback ]

\* _generate_contour_with_tabs from the tab positions on (lines 61-92).
ContourPasses(config, contour, total_length, placed) ==
    LET start_point == << contour[1].start[1] * placed.scale,
                          contour[1].start[2] * placed.scale >>
    IN  ContourToolpath(config, start_point,
                        StepDownLoop(config, contour, placed.tabs, placed.scale, 0,
                                     << << start_point[1], start_point[2],
                                           config.safety_height >> >>, << >>),
                        total_length, placed)

\* _generate_contour_with_tabs given the contour length (lines 58-92).
ContourOfLength(config, contour, total_length) ==
    ContourPasses(config, contour, total_length,
                  CalculateTabPositions(config.tabs, contour, total_length))

\* ToolpathGenerator._generate_contour_with_tabs
ContourWithTabs(config, contour) ==
    ContourOfLength(config, contour, CalculateContourLength(contour, Len(contour)))

\* ToolpathGenerator._generate_contour_with_tabs
GenerateContourWithTabs ==
    /\ cut_state = "ready"
    /\ cut_call.op = "contour_with_tabs"
    /\ cut_state' = "returned"
    /\ cut_out' = ContourWithTabs(cut_call.config, cut_call.contour)
    /\ UNCHANGED cut_call
    /\ UNCHANGED << nestVars, serverVars >>

\* ToolpathGenerator._calculate_bbox
CalculateBbox(contour) ==
    LET xs == { contour[k].start[1] : k \in 1 .. Len(contour) }
              \cup { contour[k].end[1] : k \in 1 .. Len(contour) }
        ys == { contour[k].start[2] : k \in 1 .. Len(contour) }
              \cup { contour[k].end[2] : k \in 1 .. Len(contour) }
    IN  << SetMin(xs), SetMin(ys), SetMax(xs), SetMax(ys) >>

RECURSIVE CutSegments(_, _, _)
\* for geom in contour: points.extend(self._cut_segment(geom, z)), over
\* contour[1..n]
CutSegments(contour, n, z) ==
    IF n = 0 THEN << >>
    ELSE CutSegments(contour, n - 1, z) \o CutSegment(contour[n], z, 1)

RECURSIVE PocketLoop(_, _, _, _, _)
\* The while loop of _generate_pocket_toolpath from current_depth on.
PocketLoop(config, contour, current_depth, points, pass_depths) ==
    IF ~(current_depth < config.material.thickness)
    THEN [ points |-> points, pass_depths |-> pass_depths ]
    ELSE LET depth == NextDepth(current_depth, config.material.step_down,
                                config.material.thickness)
         IN  PocketLoop(config, contour, depth,
                        points \o CutSegments(contour, Len(contour), -depth),
                        Append(pass_depths, depth))

\* ToolpathGenerator._generate_pocket_toolpath
GeneratePocketToolpath(config, contour) ==
    LET start_point == contour[1].start
        looped == PocketLoop(config, contour, 0,
                             << << start_point[1], start_point[2],
                                   config.safety_height >> >>, << >>)
    IN  [ type |-> "pocket",
          points |-> Append(looped.points,
                            << start_point[1], start_point[2], config.safety_height >>),
          feed_rate |-> config.material.feed_rate,
          plunge_rate |-> config.material.plunge_rate,
          pass_depths |-> looped.pass_depths, scale |-> 1 ]

\* ToolpathGenerator._generate_hole_toolpath
HoleToolpath(config, hole) ==
    LET bbox == CalculateBbox(hole)
        center_x == (bbox[1] + bbox[3]) \div 2
        center_y == (bbox[2] + bbox[4]) \div 2
        radius == (bbox[3] - bbox[1]) \div 2
    IN  IF radius <= config.tool.diameter \div 2
        THEN [ type |-> "drill",
               points |-> << << center_x, center_y, config.safety_height >>,
                             << center_x, center_y, -config.material.thickness >>,
                             << center_x, center_y, config.safety_height >> >>,
               feed_rate |-> config.material.plunge_rate,
               plunge_rate |-> config.material.plunge_rate,
               pass_depths |-> << >>, scale |-> 1 ]
        ELSE GeneratePocketToolpath(config, hole)

\* ToolpathGenerator._generate_hole_toolpath
GenerateHoleToolpath ==
    /\ cut_state = "ready"
    /\ cut_call.op = "hole_toolpath"
    /\ cut_state' = "returned"
    /\ cut_out' = HoleToolpath(cut_call.config, cut_call.hole)
    /\ UNCHANGED cut_call
    /\ UNCHANGED << nestVars, serverVars >>

----------------------------------------------------------------------------
(* ToolpathGenerator.generate_toolpaths and _optimize_toolpath_order       *)
(* The first and the last point of a toolpath have whole-mm x and y; a     *)
(* toolpath carries the scale its points count in.                         *)

\* The x, y of points[k] of a toolpath, in mm.
PointMm(tp, k) ==
    << tp.points[k][1] \div tp.scale, tp.points[k][2] \div tp.scale >>

\* dist of _optimize_toolpath_order, squared
TravelSq(first_point, last_point) ==
    (first_point[1] - last_point[1]) * (first_point[1] - last_point[1])
    + (first_point[2] - last_point[2]) * (first_point[2] - last_point[2])

\* The index kept when a distance equal to min_dist replaces it too.
NearestIdxOrLater(dists) ==
    SetMax({ i \in 1 .. Len(dists) : \A j \in 1 .. Len(dists) : dists[i] <= dists[j] })

\* nearest_idx after the for loop: the first index of the least distance.
NearestIdx(dists) ==
    SetMin({ i \in 1 .. Len(dists) : \A j \in 1 .. Len(dists) : dists[i] <= dists[j] })

\* What remaining.pop(nearest_idx) leaves in remaining.
PopAt(remaining, nearest_idx) ==
    SubSeq(remaining, 1, nearest_idx - 1)
    \o SubSeq(remaining, nearest_idx + 1, Len(remaining))

RECURSIVE OptimizeLoop(_, _, _)
\* The while loop of _optimize_toolpath_order; optimized and remaining hold
\* the positions the toolpaths have in the input list.
OptimizeLoop(toolpaths, optimized, remaining) ==
    IF remaining = << >> THEN optimized
    ELSE LET last == toolpaths[optimized[Len(optimized)]]
             last_point == PointMm(last, Len(last.points))
             nearest_idx ==
                 NearestIdx([ i \in 1 .. Len(remaining) |->
                                TravelSq(PointMm(toolpaths[remaining[i]], 1),
                                         last_point) ])
         IN  OptimizeLoop(toolpaths, Append(optimized, remaining[nearest_idx]),
                          PopAt(remaining, nearest_idx))

\* The positions in the input list of the toolpaths _optimize_toolpath_order
\* returns, in the order it returns them.
OptimizedOrder(toolpaths) ==
    IF Len(toolpaths) <= 1 THEN [ k \in 1 .. Len(toolpaths) |-> k ]
    ELSE OptimizeLoop(toolpaths, << 1 >>,
                      [ k \in 1 .. (Len(toolpaths) - 1) |-> k + 1 ])

\* The list in the given order.
Reordered(list, order) == [ k \in 1 .. Len(order) |-> list[order[k]] ]

\* ToolpathGenerator._optimize_toolpath_order
OptimizeToolpathOrder(toolpaths) == Reordered(toolpaths, OptimizedOrder(toolpaths))

\* ToolpathGenerator._optimize_toolpath_order
OptimizeToolpathOrderCall ==
    /\ cut_state = "ready"
    /\ cut_call.op = "optimize_toolpath_order"
    /\ cut_state' = "returned"
    /\ cut_out' = [ toolpaths |-> OptimizeToolpathOrder(cut_call.toolpaths),
                    order |-> OptimizedOrder(cut_call.toolpaths) ]
    /\ UNCHANGED cut_call
    /\ UNCHANGED << nestVars, serverVars >>

RECURSIVE HoleToolpaths(_, _, _)
\* for hole in part.holes: the toolpaths of holes[1..n]
HoleToolpaths(config, holes, n) ==
    IF n = 0 THEN << >>
    ELSE Append(HoleToolpaths(config, holes, n - 1), HoleToolpath(config, holes[n]))

\* The toolpaths the loop body of generate_toolpaths appends for one part.
ToolpathsOfPart(config, part) ==
    << ContourWithTabs(config, part.outer_contour) >>
    \o HoleToolpaths(config, part.holes, Len(part.holes))

RECURSIVE ToolpathsOfParts(_, _, _)
\* for part in parts: self.toolpaths after part_list[1..n]
ToolpathsOfParts(config, part_list, n) ==
    IF n = 0 THEN << >>
    ELSE ToolpathsOfParts(config, part_list, n - 1)
         \o ToolpathsOfPart(config, part_list[n])

\* Which part, and which of its holes (0 for the outer contour), a toolpath
\* of ToolpathsOfPart was made from.
OriginsOfPart(toolpaths_of_part, n) ==
    [ k \in 1 .. Len(toolpaths_of_part) |->
        [ part |-> n,
          hole |-> IF toolpaths_of_part[k].type = "contour" THEN 0
                   ELSE Cardinality({ j \in 1 .. k :
                                        toolpaths_of_part[j].type # "contour" }) ] ]

RECURSIVE OriginsOfParts(_, _, _)
\* The origins of the toolpaths of ToolpathsOfParts.
OriginsOfParts(config, part_list, n) ==
    IF n = 0 THEN << >>
    ELSE OriginsOfParts(config, part_list, n - 1)
         \o OriginsOfPart(ToolpathsOfPart(config, part_list[n]), n)

\* What generate_toolpaths returns for the list it collected, with the
\* origins of the toolpaths in the same order.
ToolpathsInOrder(toolpaths, origins) ==
    [ toolpaths |-> OptimizeToolpathOrder(toolpaths),
      origins |-> Reordered(origins, OptimizedOrder(toolpaths)) ]

\* ToolpathGenerator.generate_toolpaths
GenerateToolpaths ==
    /\ cut_state = "ready"
    /\ cut_call.op = "generate_toolpaths"
    /\ cut_state' = "returned"
    /\ cut_out' = ToolpathsInOrder(
                      ToolpathsOfParts(cut_call.config, cut_call.parts,
                                       Len(cut_call.parts)),
                      OriginsOfParts(cut_call.config, cut_call.parts,
                                     Len(cut_call.parts)))
    /\ UNCHANGED cut_call
    /\ UNCHANGED << nestVars, serverVars >>

----------------------------------------------------------------------------
(* DXFParser._classify_geometries.  A polyline contour is an axis-aligned  *)
(* box, a circle contour a centre and a radius; a contour's entity tells    *)
(* contours of equal shape apart.  A circle's polygon is the 64-gon that    *)
(* Point.buffer makes, with vertices on the axes through its centre.        *)

\* The shapely geometry made from a contour (lines 87-102).
GeometryOf(contour) ==
    IF contour.type = "polyline"
    THEN [ kind |-> "box", box |-> contour.box ]
    ELSE [ kind |-> "disc", center |-> contour.center, radius |-> contour.radius ]

\* 10000 times the area of the 64-gon of radius 1: 32 * sin(2 * pi / 64).
DiscAreaFactor == 31365

\* 10000 times the squared inradius of the 64-gon of radius 1.
DiscInradiusSq == 9975

\* poly.area, in 1/10000 mm^2.
GeometryArea(g) ==
    IF g.kind = "box"
    THEN (g.box[3] - g.box[1]) * (g.box[4] - g.box[2]) * 10000
    ELSE DiscAreaFactor * g.radius * g.radius

\* The corner points of a box.
BoxCorners(b) ==
    { << b[1], b[2] >>, << b[3], b[2] >>, << b[3], b[4] >>, << b[1], b[4] >> }

\* a.contains(b) of shapely: no point of b outside a.  A box lies in a disc
\* when its corners lie within the inscribed circle of the 64-gon; a disc
\* lies in a disc, centres on a common axis, when it reaches no further.
Contains(a, b) ==
    CASE a.kind = "box" /\ b.kind = "box" ->
           /\ a.box[1] <= b.box[1] /\ a.box[2] <= b.box[2]
           /\ b.box[3] <= a.box[3] /\ b.box[4] <= a.box[4]
      [] a.kind = "box" /\ b.kind = "disc" ->
           /\ a.box[1] <= b.center[1] - b.radius
           /\ a.box[2] <= b.center[2] - b.radius
           /\ b.center[1] + b.radius <= a.box[3]
           /\ b.center[2] + b.radius <= a.box[4]
      [] a.kind = "disc" /\ b.kind = "box" ->
           \A q \in BoxCorners(b.box) :
               10000 * ((q[1] - a.center[1]) * (q[1] - a.center[1])
                        + (q[2] - a.center[2]) * (q[2] - a.center[2]))
                   <= DiscInradiusSq * a.radius * a.radius
      [] a.kind = "disc" /\ b.kind = "disc" ->
           /\ b.radius <= a.radius
           /\ (b.center[1] - a.center[1]) * (b.center[1] - a.center[1])
                + (b.center[2] - a.center[2]) * (b.center[2] - a.center[2])
                  <= (a.radius - b.radius) * (a.radius - b.radius)

\* The conversion loop (lines 87-102): one polygon record for each contour.
ContourPolygons(contours) ==
    [ k \in 1 .. Len(contours) |->
        [ geometry |-> GeometryOf(contours[k]),
          contour |-> contours[k],
          area |-> GeometryArea(GeometryOf(contours[k])) ] ]

\* The j of the inner loop at which it breaks: the last of the earlier
\* polygons that contains polygon i, 0 when none does.
LastContaining(polygons, i) ==
    SetMax({ 0 } \cup { j \in 1 .. (i - 1) :
                           Contains(polygons[j].geometry, polygons[i].geometry) })

\* The j of the inner loop at which it breaks: the first of the earlier
\* polygons that contains polygon i, 0 when none does (lines 113-121).
FirstContaining(polygons, i) ==
    IF \E j \in 1 .. (i - 1) : Contains(polygons[j].geometry, polygons[i].geometry)
    THEN SetMin({ j \in 1 .. (i - 1) :
                    Contains(polygons[j].geometry, polygons[i].geometry) })
    ELSE 0

\* parent_idx: the first part of the given geometry, 0 for None (lines 117-118).
ParentIdx(part_list, geometry) ==
    IF \E k \in 1 .. Len(part_list) : part_list[k].geometry = geometry
    THEN SetMin({ k \in 1 .. Len(part_list) : part_list[k].geometry = geometry })
    ELSE 0

\* The hole branch with the contour appended to no hole list.
AppendHoleDropped(part_list, parent_idx, contour) == part_list

\* The hole branch with parent_idx given (lines 119-120).
AppendHole(part_list, parent_idx, contour) ==
    IF parent_idx # 0
    THEN [ part_list EXCEPT ![parent_idx].holes = Append(@, contour) ]
    ELSE part_list

\* One iteration of the classification loop with the containing polygon
\* given (lines 109-131).
ClassifyOne(part_list, poly_data, container) ==
    IF container # << >>
    THEN AppendHole(part_list, ParentIdx(part_list, container[1].geometry),
                    poly_data.contour)
    ELSE Append(part_list, [ contour |-> poly_data.contour,
                             geometry |-> poly_data.geometry,
                             holes |-> << >>,
                             area |-> poly_data.area ])

\* The polygon the inner loop breaks at, in a list of at most one element.
ContainerOf(polygons, j) ==
    IF j = 0 THEN << >> ELSE << polygons[j] >>

RECURSIVE ClassifyLoop(_, _)
\* self.parts after the first i polygons (lines 108-131).
ClassifyLoop(polygons, i) ==
    IF i = 0 THEN << >>
    ELSE ClassifyOne(ClassifyLoop(polygons, i - 1), polygons[i],
                     ContainerOf(polygons, FirstContaining(polygons, i)))

\* The sorted polygons and the parts made of them.
ClassifiedAs(polygons) ==
    [ polygons |-> polygons, parts |-> ClassifyLoop(polygons, Len(polygons)) ]

\* DXFParser._classify_geometries on a freshly constructed parser.
ClassifyGeometries(contours) ==
    ClassifiedAs(SortByAreaDesc(ContourPolygons(contours), Len(contours)))

ClassifyGeometriesCall ==
    /\ cut_state = "ready"
    /\ cut_call.op = "classify_geometries"
    /\ cut_state' = "returned"
    /\ cut_out' = ClassifyGeometries(cut_call.contours)
    /\ UNCHANGED cut_call
    /\ UNCHANGED << nestVars, serverVars >>

----------------------------------------------------------------------------
(* DXFParser._assemble_contours and _trace_contour on line segments.       *)
(* Points are in 0.1 mm, so rounding to three decimals changes nothing and *)
(* the connection tolerance of 0.1 mm joins equal points only.  A segment  *)
(* is known by its entity; segment_map is the list of segments itself.     *)

\* DXFParser._points_equal, the tolerance in 0.1 mm.
PointsEqual(p1, p2, tolerance) ==
    Abs(p1[1] - p2[1]) < tolerance /\ Abs(p1[2] - p2[2]) < tolerance

\* The segments with an end at the point, by index: point_to_segments.
SegmentsAt(segments, point) ==
    SelectSeq([ i \in 1 .. Len(segments) |-> i ],
              LAMBDA i : segments[i].start = point \/ segments[i].end = point)

\* connections[point], by segment index in the order of first appearance:
\* every segment at the point is listed for every other one, so the list
\* opens with the second and closes its first round with the first.
ConnectionsAt(segments, point) ==
    IF Len(SegmentsAt(segments, point)) < 2 THEN << >>
    ELSE Tail(SegmentsAt(segments, point)) \o << Head(SegmentsAt(segments, point)) >>

\* The first entry of a connection list that is not used, 0 when none is.
FirstUnused(connected, used_segments) ==
    IF \E k \in 1 .. Len(connected) : connected[k] \notin used_segments
    THEN connected[SetMin({ k \in 1 .. Len(connected) :
                              connected[k] \notin used_segments })]
    ELSE 0

\* The trace after taking a segment from its current point (lines 303-332).
TakeSegment(st, seg_idx, segment) ==
    IF PointsEqual(st.current_point, segment.start, 5)
    THEN [ current_point |-> segment.end,
           used_segments |-> st.used_segments \cup { seg_idx },
           path_points |-> st.path_points \o << segment.start, segment.end >>,
           path_segments |-> Append(st.path_segments, segment) ]
    ELSE [ current_point |-> segment.start,
           used_segments |-> st.used_segments \cup { seg_idx },
           path_points |-> st.path_points \o << segment.end, segment.start >>,
           path_segments |-> Append(st.path_segments, segment) ]

\* The return of a closed contour (lines 296-300, 337-341).
ClosedTrace(st) ==
    [ contour |-> << [ type |-> "polyline", points |-> st.path_points,
                       segments |-> st.path_segments ] >>,
      used_segments |-> st.used_segments,
      path_segments |-> st.path_segments,
      ended |-> "closed" ]

\* The end of a trace that leaves used_segments as it stands.
FailedTraceKeeping(segments, st, ended) ==
    [ contour |-> << >>,
      used_segments |-> st.used_segments,
      path_segments |-> st.path_segments,
      ended |-> ended ]

\* The end of a trace that did not close: the segments of the path are
\* discarded from used_segments and None is returned (lines 343-349).
FailedTrace(segments, st, ended) ==
    [ contour |-> << >>,
      used_segments |-> st.used_segments
                        \ { i \in 1 .. Len(segments) :
                              \E k \in 1 .. Len(st.path_segments) :
                                  segments[i] = st.path_segments[k] },
      path_segments |-> st.path_segments,
      ended |-> ended ]

RECURSIVE TraceLoop(_, _, _, _)

\* The end of an iteration that took a segment: the loop is closed or goes
\* on (lines 335-341).
TraceTaken(segments, start_point, st, segment_count) ==
    IF Len(st.path_points) > 3 /\ PointsEqual(st.current_point, start_point, 5)
    THEN ClosedTrace(st)
    ELSE TraceLoop(segments, start_point, st, segment_count + 1)

\* One iteration of the loop with the next segment found (lines 288-341).
TraceStep(segments, start_point, st, segment_count, next_idx) ==
    IF next_idx = 0
    THEN IF Len(st.path_points) > 2 /\ PointsEqual(st.current_point, start_point, 5)
         THEN ClosedTrace(st)
         ELSE FailedTrace(segments, st, "no segment left")
    ELSE TraceTaken(segments, start_point,
                    TakeSegment(st, next_idx, segments[next_idx]), segment_count)

\* The while loop of _trace_contour after segment_count iterations.
TraceLoop(segments, start_point, st, segment_count) ==
    IF segment_count >= max_segments
    THEN FailedTrace(segments, st, "max_segments")
    ELSE TraceStep(segments, start_point, st, segment_count,
                   FirstUnused(ConnectionsAt(segments, st.current_point),
                               st.used_segments))

\* DXFParser._trace_contour: the contour (none or one), used_segments after
\* the call, the segments of the path and how the trace ended.
TraceContour(segments, start_point, used_segments) ==
    TraceLoop(segments, start_point,
              [ current_point |-> start_point, used_segments |-> used_segments,
                path_points |-> << >>, path_segments |-> << >> ], 0)

\* _assemble_contours up to its loop over the segments (lines 177-251).
AssembleContoursCall ==
    /\ cut_state = "ready"
    /\ cut_call.op = "assemble_contours"
    /\ cut_state' = IF cut_call.segments = << >> THEN "returned" ELSE "running"
    /\ cut_out' = [ seg_idx |-> 1, used_segments |-> {}, contours |-> << >>,
                    traces |-> << >> ]
    /\ UNCHANGED cut_call
    /\ UNCHANGED << nestVars, serverVars >>

\* The loop body of _assemble_contours with the trace made (lines 255-263);
\* traces keeps, for each call of _trace_contour, what it was given and
\* what it returned.
AfterTrace(out, trace) ==
    [ seg_idx |-> out.seg_idx + 1,
      used_segments |-> trace.used_segments,
      contours |-> out.contours \o trace.contour,
      traces |-> Append(out.traces,
                        [ seg_idx |-> out.seg_idx,
                          used_before |-> out.used_segments,
                          used_after |-> trace.used_segments,
                          contour |-> trace.contour,
                          path_segments |-> trace.path_segments,
                          ended |-> trace.ended ]) ]

\* One iteration of the loop over the segments (lines 254-263).
AssembleContoursTrace ==
    /\ cut_state = "running"
    /\ cut_call.op = "assemble_contours"
    /\ cut_out.seg_idx <= Len(cut_call.segments)
    /\ cut_out' =
          IF cut_out.seg_idx \in cut_out.used_segments
          THEN [ cut_out EXCEPT !.seg_idx = @ + 1 ]
          ELSE AfterTrace(cut_out,
                          TraceContour(cut_call.segments,
                                       cut_call.segments[cut_out.seg_idx].start,
                                       cut_out.used_segments))
    /\ UNCHANGED << cut_call, cut_state >>
    /\ UNCHANGED << nestVars, serverVars >>

\* _assemble_contours returns its contours (lines 265-266).
AssembleContoursReturn ==
    /\ cut_state = "running"
    /\ cut_call.op = "assemble_contours"
    /\ cut_out.seg_idx > Len(cut_call.segments)
    /\ cut_state' = "returned"
    /\ UNCHANGED << cut_call, cut_out >>
    /\ UNCHANGED << nestVars, serverVars >>

----------------------------------------------------------------------------
(* Mach3PostProcessor.  The G-code text is a sequence of lines, a line a    *)
(* sequence of words; a word is a letter (or a whole fixed word) with the   *)
(* number printed after it.  Coordinates are in mm, feeds in 0.1 mm/min.    *)

Word(letter, number) == [ letter |-> letter, number |-> number ]

\* f"{x:.3f}": the number printed, in thousandths.
Format3(x) == x * 1000

\* f"{feed:.0f}" of a feed given in tenths: the nearest whole number.
Format0(feed) == (feed + 5) \div 10

\* move.get(key, default)
Get(move, key, default) ==
    IF key \in DOMAIN move THEN move[key] ELSE default

\* Mach3PostProcessor._get_move_comment
GetMoveComment(move_type) ==
    CASE move_type = "rapid_retract" -> "Retract"
      [] move_type = "plunge" -> "Plunge"
      [] move_type = "helical_move" -> "Helical bore"
      [] move_type = "contour_cut" -> "Contour"
      [] move_type = "tab_lift" -> "Tab"
      [] OTHER -> ""

\* The words after the operation with the feed printed for every operation.
MoveWordsFeedAlways(st, operation, x, y, z, feed, comment) ==
    (IF x # st.X THEN << Word("X", Format3(x)) >> ELSE << >>)
    \o (IF y # st.Y THEN << Word("Y", Format3(y)) >> ELSE << >>)
    \o (IF z # st.Z THEN << Word("Z", Format3(z)) >> ELSE << >>)
    \o (IF feed # st.current_feed
        THEN << Word("F", Format0(feed)) >> ELSE << >>)
    \o (IF comment # "" THEN << Word("(", comment) >> ELSE << >>)

\* The words of a line that a move adds after its operation, with the
\* target and feed read from the move (lines 88-109).
MoveWords(st, operation, x, y, z, feed, comment) ==
    (IF x # st.X THEN << Word("X", Format3(x)) >> ELSE << >>)
    \o (IF y # st.Y THEN << Word("Y", Format3(y)) >> ELSE << >>)
    \o (IF z # st.Z THEN << Word("Z", Format3(z)) >> ELSE << >>)
    \o (IF operation \in { "G01", "G02", "G03" } /\ feed # st.current_feed
        THEN << Word("F", Format0(feed)) >> ELSE << >>)
    \o (IF comment # "" THEN << Word("(", comment) >> ELSE << >>)

\* current_position and current_feed after a move (lines 88-103).
MoveState(st, operation, x, y, z, feed) ==
    [ X |-> x, Y |-> y, Z |-> z,
      current_feed |-> IF operation \in { "G01", "G02", "G03" } THEN feed
                       ELSE st.current_feed ]

\* The line returned for the words after the operation: None (no line) when
\* there are none (line 116).
MoveLine(operation, words) ==
    IF words = << >> THEN << >> ELSE << << Word(operation, 0) >> \o words >>

\* Mach3PostProcessor._process_toolpath_move with the fields of the move read.
ProcessMoveFields(st, operation, x, y, z, feed, comment) ==
    [ lines |-> MoveLine(operation, MoveWords(st, operation, x, y, z, feed, comment)),
      state |-> MoveState(st, operation, x, y, z, feed) ]

\* Mach3PostProcessor._process_toolpath_move: the lines it adds (none or
\* one) and the state of the post-processor after it.
ProcessToolpathMove(st, move) ==
    ProcessMoveFields(st, Get(move, "operation", "G01"),
                      move.position[1], move.position[2],
                      Get(move, "depth", st.Z),
                      Get(move, "feed_rate", st.current_feed),
                      GetMoveComment(Get(move, "type", "")))

\* The state of a Mach3PostProcessor after construction (lines 7-12).
NewPostProcessor == [ X |-> 0, Y |-> 0, Z |-> 0, current_feed |-> 0 ]

\* The lines so far with those of one more move; steps keeps, for each call
\* of _process_toolpath_move, the state before it, its line and the state
\* after it.
AppendMove(sofar, step) ==
    [ lines |-> sofar.lines \o step.lines, state |-> step.state,
      steps |-> Append(sofar.steps, [ before |-> sofar.state,
                                      lines |-> step.lines,
                                      after |-> step.state ]) ]

\* The known state with the lines of one more move.
ThenMove(sofar, move) ==
    AppendMove(sofar, ProcessToolpathMove(sofar.state, move))

RECURSIVE ProcessToolpaths(_, _, _)
\* The loop of generate_gcode over the first n moves (lines 26-29), on a
\* post-processor in state self: generate_gcode sets no attribute before it.
ProcessToolpaths(self, toolpaths, n) ==
    IF n = 0 THEN [ lines |-> << >>, state |-> self, steps |-> << >> ]
    ELSE ThenMove(ProcessToolpaths(self, toolpaths, n - 1), toolpaths[n])

\* A comment line.
CommentLine(text) == << Word("(", text) >>

EmptyLine == << >>

\* Mach3PostProcessor._generate_header
GenerateHeader ==
    << CommentLine("Program"), CommentLine("Generated"), CommentLine("Material"),
       CommentLine("Tool"), CommentLine("Units: MM"), EmptyLine >>

\* Mach3PostProcessor._generate_initialization
GenerateInitialization(spindle_speed) ==
    << << Word("G17", 0), Word("G21", 0), Word("G40", 0), Word("G49", 0),
          Word("G80", 0), Word("G90", 0), Word("G94", 0) >>,
       << Word("G91.1", 0) >>,
       << Word("T1", 0), Word("M6", 0) >>,
       << Word("S", spindle_speed), Word("M3", 0) >>,
       << Word("G54", 0) >>,
       << Word("G0", 0), Word("Z", 5000) >>,
       << Word("M8", 0) >>,
       EmptyLine >>

\* Mach3PostProcessor._generate_footer
GenerateFooter ==
    << EmptyLine,
       << Word("G0", 0), Word("Z", 25000) >>,
       << Word("M5", 0) >>,
       << Word("M9", 0) >>,
       << Word("G28", 0), Word("G91", 0), Word("Z", 0) >>,
       << Word("G90", 0) >>,
       << Word("M30", 0) >>,
       << Word("%", 0) >> >>

\* Mach3PostProcessor.generate_gcode on a post-processor in state self: the
\* lines of the program.
GenerateGcodeLines(self, toolpaths, spindle_speed) ==
    GenerateHeader \o GenerateInitialization(spindle_speed)
    \o ProcessToolpaths(self, toolpaths, Len(toolpaths)).lines \o GenerateFooter

\* What a call of generate_gcode leaves: the program, its move lines, the
\* state of the post-processor, and the move lines of the call before.
GcodeOutput(self, moves, spindle_speed, earlier) ==
    [ gcode |-> GenerateHeader \o GenerateInitialization(spindle_speed)
                \o moves.lines \o GenerateFooter,
      move_lines |-> moves.lines,
      steps |-> moves.steps,
      self |-> moves.state,
      earlier_move_lines |-> earlier ]

\* generate_gcode with the same move list, on a new Mach3PostProcessor or
\* once more on the one that has made a program.
GenerateGcode ==
    /\ cut_call.op = "generate_gcode"
    /\ \/ /\ cut_state = "ready"
          /\ cut_out' = GcodeOutput(NewPostProcessor,
                                    ProcessToolpaths(NewPostProcessor, cut_call.toolpaths,
                                                     Len(cut_call.toolpaths)),
                                    cut_call.spindle_speed, << >>)
       \/ /\ cut_state = "returned"
          /\ Len(cut_out.earlier_move_lines) < MaxRepeats
          /\ cut_out' = GcodeOutput(cut_out.self,
                                    ProcessToolpaths(cut_out.self, cut_call.toolpaths,
                                                     Len(cut_call.toolpaths)),
                                    cut_call.spindle_speed,
                                    Append(cut_out.earlier_move_lines,
                                           cut_out.move_lines))
    /\ cut_state' = "returned"
    /\ UNCHANGED cut_call
    /\ UNCHANGED << nestVars, serverVars >>

\* The words G00, G01, G02 and G03.
MotionWords == { "G00", "G01", "G02", "G03" }

\* not line.strip() or line.strip().startswith("(")
IsBlankOrComment(line) ==
    line = << >> \/ line[1].letter = "("

\* The inner loop of optimize_gcode: whether a word is kept (lines 151-163).
KeepsWord(opt, part) ==
    IF part.letter \in MotionWords THEN part # opt.last_g
    ELSE IF part.letter = "F" THEN part # opt.last_f
    ELSE TRUE

\* The inner loop of optimize_gcode: last_g and last_f after a word.
AfterWord(opt, part) ==
    [ opt EXCEPT !.last_g = IF part.letter \in MotionWords THEN part ELSE @,
                 !.last_f = IF part.letter = "F" THEN part ELSE @ ]

\* new_parts with the word added when it is kept.
WithWord(opt, part, kept) ==
    [ AfterWord(opt, part) EXCEPT
        !.new_parts = IF kept THEN Append(@, part) ELSE @ ]

RECURSIVE OptimizeParts(_, _, _)
\* new_parts, last_g and last_f after the first n words of a line.
OptimizeParts(opt, parts_of_line, n) ==
    IF n = 0 THEN opt
    ELSE WithWord(OptimizeParts(opt, parts_of_line, n - 1), parts_of_line[n],
                  KeepsWord(OptimizeParts(opt, parts_of_line, n - 1), parts_of_line[n]))

\* The line made of new_parts, if there are any (lines 165-166).
LineOf(new_parts) ==
    IF new_parts # << >> THEN << new_parts >> ELSE << >>

\* optimized with the line of new_parts appended, if there are any.
WithLine(optimized, after) ==
    [ optimized |-> optimized \o LineOf(after.new_parts),
      new_parts |-> << >>,
      last_g |-> after.last_g,
      last_f |-> after.last_f ]

\* The outer loop of optimize_gcode for one line (lines 143-166).
OptimizeLine(opt, line) ==
    IF IsBlankOrComment(line)
    THEN [ opt EXCEPT !.optimized = Append(@, line) ]
    ELSE WithLine(opt.optimized, OptimizeParts(opt, line, Len(line)))

RECURSIVE OptimizeLines(_, _)
\* optimized, last_g and last_f after the first n lines.
OptimizeLines(lines, n) ==
    IF n = 0
    THEN [ optimized |-> << >>, new_parts |-> << >>,
           last_g |-> Word("", 0), last_f |-> Word("", 0) ]
    ELSE OptimizeLine(OptimizeLines(lines, n - 1), lines[n])

\* Mach3PostProcessor.optimize_gcode
OptimizeGcode(gcode) ==
    OptimizeLines(gcode, Len(gcode)).optimized

OptimizeGcodeCall ==
    /\ cut_state = "ready"
    /\ cut_call.op = "optimize_gcode"
    /\ cut_state' = "returned"
    /\ cut_out' = [ gcode |-> OptimizeGcode(cut_call.gcode) ]
    /\ UNCHANGED cut_call
    /\ UNCHANGED << nestVars, serverVars >>

----------------------------------------------------------------------------
(* The toolpath operations, each called once on one input.                 *)

\* A closed contour of 'line' geometries through the given vertices.
ClosedContour(vertices) ==
    [ k \in 1 .. Len(vertices) |->
        [ type |-> "line", start |-> vertices[k],
          end |-> vertices[(k % Len(vertices)) + 1] ] ]

Rectangle(x, y, w, h) ==
    ClosedContour(<< << x, y >>, << x + w, y >>, << x + w, y + h >>, << x, y + h >> >>)

\* A 30 x 20 bracket with a 15 x 10 notch in its upper right corner.
Bracket ==
    ClosedContour(<< << 0, 0 >>, << 30, 0 >>, << 30, 10 >>, << 15, 10 >>,
                     << 15, 20 >>, << 0, 20 >> >>)

\* A 100 x 100 square whose bottom edge is drawn as two lines.
SplitSquare ==
    ClosedContour(<< << 0, 0 >>, << 50, 0 >>, << 100, 0 >>, << 100, 100 >>,
                     << 0, 100 >> >>)

PartContours ==
    { Rectangle(0, 0, 15, 15), Rectangle(0, 0, 25, 25), Rectangle(0, 0, 60, 40),
      Rectangle(0, 0, 75, 50), Rectangle(0, 0, 100, 100), Bracket, SplitSquare }

Thicknesses == 1 .. MaxThickness
DepthsPerPass == 1 .. MaxDepthPerPass
HoleRadii == 1 .. MaxHoleRadius
ToolDiameters == { 2, 4 }

BoringCalls ==
    { [ op |-> "boring", material_thickness |-> t, hole_center |-> << 20, 20 >>,
        hole_radius |-> r,
        settings |-> [ depth_per_pass |-> d, tool_diameter |-> td, pecking |-> pk,
                       feed_rate |-> 2000, plunge_rate |-> 500 ] ]
      : t \in Thicknesses, d \in DepthsPerPass, r \in HoleRadii,
        td \in ToolDiameters, pk \in BOOLEAN }

\* Contours and offsets of the contouring operation count 0.1 mm.
ContouringCalls ==
    { [ op |-> "contouring", material_thickness |-> t,
        part_contour |-> << << 0, 0 >>, << 1000, 0 >>, << 1000, 500 >>, << 0, 500 >> >>,
        tabs |-> tb,
        settings |-> [ depth_per_pass |-> d, tool_diameter |-> 60,
                       feed_rate |-> 2500, plunge_rate |-> 600,
                       climb_milling |-> f[1], finish_pass |-> f[2],
                       finish_allowance |-> fa ] ]
      : t \in Thicknesses, d \in DepthsPerPass,
        tb \in { << >>, << [ position |-> << 500, 0 >>, width |-> 80 ] >> },
        f \in BOOLEAN \X BOOLEAN, fa \in { 0, 1 } }

GeneratorConfigs ==
    { [ material |-> [ thickness |-> t, step_down |-> d, feed_rate |-> 1000,
                       plunge_rate |-> 300 ],
        tabs |-> [ enabled |-> en, height |-> 3, width |-> 8, spacing |-> 100,
                   min_tabs_per_part |-> 2, corner_exclusion_zone |-> zone,
                   corner_angle_threshold |-> 45 ],
        tool |-> [ diameter |-> td ],
        safety_height |-> 5 ]
      : t \in Thicknesses, d \in DepthsPerPass, en \in BOOLEAN,
        zone \in { 5, 10 }, td \in ToolDiameters }

ContourWithTabsCalls ==
    { [ op |-> "contour_with_tabs", config |-> c, contour |-> p ]
      : c \in { g \in GeneratorConfigs : g.tool.diameter = 4 }, p \in PartContours }

HoleToolpathCalls ==
    { [ op |-> "hole_toolpath", config |-> c,
        hole |-> Rectangle(10, 10, 2 * r, 2 * r) ]
      : c \in { g \in GeneratorConfigs :
                  g.tabs.enabled /\ g.tabs.corner_exclusion_zone = 10 },
        r \in HoleRadii }

\* Slots 6 mm wide: an open one along a line, and closed ones with the
\* offset paths found for them (none, one or two).
SlottingCalls ==
    { [ op |-> "slotting", material_thickness |-> t, slot_width |-> 6,
        slot_contour |-> c.contour, is_closed |-> c.closed, offsets |-> c.offsets,
        settings |-> [ depth_per_pass |-> d, tool_diameter |-> 4,
                       feed_rate |-> 1500, plunge_rate |-> 400 ] ]
      : t \in Thicknesses, d \in DepthsPerPass,
        c \in { [ contour |-> << << 10, 10 >>, << 40, 10 >> >>, closed |-> FALSE,
                  offsets |-> << >> ],
                [ contour |-> << << 0, 0 >>, << 40, 0 >>, << 40, 6 >>, << 0, 6 >> >>,
                  closed |-> TRUE,
                  offsets |-> << << << 2, 2 >>, << 38, 2 >>, << 38, 4 >>, << 2, 4 >>,
                                    << 2, 2 >> >> >> ],
                [ contour |-> << << 0, 0 >>, << 40, 0 >>, << 40, 12 >>, << 0, 12 >> >>,
                  closed |-> TRUE,
                  offsets |-> << << << 2, 2 >>, << 38, 2 >>, << 38, 10 >>, << 2, 10 >>,
                                    << 2, 2 >> >>,
                                 << << 5, 5 >>, << 35, 5 >>, << 35, 7 >>, << 5, 7 >>,
                                    << 5, 5 >> >> >> ],
                [ contour |-> << << 0, 0 >>, << 40, 0 >>, << 40, 3 >>, << 0, 3 >> >>,
                  closed |-> TRUE, offsets |-> << >> ] } }

\* End points of the toolpaths given to _optimize_toolpath_order.
EndPoints == { << 0, 0, 5 >>, << 3, 0, 5 >>, << 0, 4, 5 >> }

OptimizeToolpathOrderCalls ==
    { [ op |-> "optimize_toolpath_order", toolpaths |-> tps ]
      : tps \in UNION { [ 1 .. n ->
                            { [ type |-> "drill", points |-> << a, b >>, scale |-> 1 ]
                              : a \in EndPoints, b \in EndPoints } ]
                        : n \in 0 .. MaxToolpaths } }

\* Parts: a plain plate, a plate with one hole to pocket, a plate with a
\* hole to drill and a hole to pocket.
CutParts ==
    { [ outer_contour |-> Rectangle(0, 0, 60, 40), holes |-> << >> ],
      [ outer_contour |-> Rectangle(0, 0, 60, 40),
        holes |-> << Rectangle(20, 10, 6, 6) >> ],
      [ outer_contour |-> Rectangle(100, 0, 75, 50),
        holes |-> << Rectangle(110, 10, 2, 2), Rectangle(150, 30, 6, 6) >> ] }

GenerateToolpathsCalls ==
    { [ op |-> "generate_toolpaths", config |-> c, parts |-> ps ]
      : c \in { g \in GeneratorConfigs :
                  /\ g.material.step_down = 1
                  /\ g.tabs.corner_exclusion_zone = 10
                  /\ g.tool.diameter = 4 },
        ps \in UNION { [ 1 .. n -> CutParts ] : n \in 0 .. MaxCutParts } }

\* Contour shapes in mm: plates, a plate inside a plate, holes inside them,
\* and circles inside and around them.
ContourShapes ==
    { [ type |-> "polyline", box |-> << 0, 0, 60, 40 >> ],
      [ type |-> "polyline", box |-> << 10, 10, 50, 30 >> ],
      [ type |-> "polyline", box |-> << 20, 15, 30, 25 >> ],
      [ type |-> "polyline", box |-> << 100, 0, 110, 10 >> ],
      [ type |-> "polyline", box |-> << 55, 5, 75, 25 >> ],
      [ type |-> "circle", center |-> << 25, 20 >>, radius |-> 4 ],
      [ type |-> "circle", center |-> << 25, 20 >>, radius |-> 10 ],
      [ type |-> "circle", center |-> << 30, 20 >>, radius |-> 50 ] }

\* Lists of contours, the n-th read from the n-th entity.
ContourLists ==
    UNION { { [ k \in 1 .. n |->
                  [ type |-> c[k].type, entity |-> k,
                    box |-> IF c[k].type = "polyline" THEN c[k].box ELSE << >>,
                    center |-> IF c[k].type = "circle" THEN c[k].center ELSE << >>,
                    radius |-> IF c[k].type = "circle" THEN c[k].radius ELSE 0 ] ]
              : c \in [ 1 .. n -> ContourShapes ] }
            : n \in 0 .. MaxContours }

ClassifyGeometriesCalls ==
    { [ op |-> "classify_geometries", contours |-> c ] : c \in ContourLists }

\* Moves of a toolpath: rapids, a plunge, cuts with and without an
\* operation, a depth or a feed rate of their own, an arc and a bare move.
ToolpathMoves ==
    { [ type |-> "rapid_retract", operation |-> "G00", position |-> << 0, 0 >>,
        depth |-> 5 ],
      [ type |-> "", operation |-> "G00", position |-> << 10, 0 >>, depth |-> 5 ],
      [ type |-> "plunge", operation |-> "G01", position |-> << 10, 0 >>,
        depth |-> -1, feed_rate |-> 3000 ],
      [ type |-> "contour_cut", position |-> << 10, 10 >>, depth |-> -1,
        feed_rate |-> 10002 ],
      [ type |-> "contour_cut", operation |-> "G01", position |-> << 0, 10 >>,
        depth |-> -1, feed_rate |-> 10004 ],
      [ type |-> "contour_cut", position |-> << 0, 0 >>, feed_rate |-> 10002 ],
      [ type |-> "helical_move", operation |-> "G02", position |-> << 10, 0 >>,
        depth |-> -1 ],
      [ operation |-> "G00", position |-> << 20, 0 >>, feed_rate |-> 3000 ],
      [ position |-> << 0, 0 >> ] }

MoveLists ==
    UNION { [ 1 .. n -> ToolpathMoves ] : n \in 0 .. MaxMoves }

GenerateGcodeCalls ==
    { [ op |-> "generate_gcode", toolpaths |-> m, spindle_speed |-> 24000 ]
      : m \in MoveLists }

\* optimize_gcode is given the programs generate_gcode makes.
OptimizeGcodeCalls ==
    { [ op |-> "optimize_gcode", gcode |-> GenerateGcodeLines(NewPostProcessor, m, 24000) ]
      : m \in MoveLists }

\* Line segments between the corners of a 10 mm square, one diagonal, and
\* a line that ends 0.3 mm short of a corner.
SegmentShapes ==
    { [ start |-> << 0, 0 >>, end |-> << 100, 0 >> ],
      [ start |-> << 100, 0 >>, end |-> << 100, 100 >> ],
      [ start |-> << 100, 100 >>, end |-> << 0, 100 >> ],
      [ start |-> << 0, 100 >>, end |-> << 0, 0 >> ],
      [ start |-> << 0, 100 >>, end |-> << 3, 0 >> ] }

\* Lists of segments, the n-th read from the n-th entity.
SegmentLists ==
    UNION { { [ k \in 1 .. n |->
                  [ type |-> "line", start |-> c[k].start, end |-> c[k].end,
                    entity |-> k ] ]
              : c \in [ 1 .. n -> SegmentShapes ] }
            : n \in 0 .. MaxSegments }

AssembleContoursCalls ==
    { [ op |-> "assemble_contours", segments |-> c ] : c \in SegmentLists }

CutInit ==
    /\ sheet_width = 0
    /\ sheet_height = 0
    /\ spacing = 0
    /\ dxf_files = << >>
    /\ file_entities = << >>
    /\ entry = "nest_parts"
    /\ pc = "off"
    /\ parts = << >>
    /\ idx = 0
    /\ placed_parts = << >>
    /\ remaining_parts = << >>
    /\ occupied_polygons = << >>
    /\ unfittable_parts = << >>
    /\ result = NoResult
    /\ last_rotations = << >>
    /\ cut_call \in BoringCalls \cup ContouringCalls \cup ContourWithTabsCalls
                    \cup HoleToolpathCalls \cup OptimizeToolpathOrderCalls
                    \cup GenerateToolpathsCalls \cup ClassifyGeometriesCalls
                    \cup GenerateGcodeCalls \cup OptimizeGcodeCalls
                    \cup AssembleContoursCalls \cup SlottingCalls
    /\ cut_state = "ready"
    /\ cut_out = NoOutput
    /\ nesting_status = Ready
    /\ requests = << >>

CutNext ==
    \/ BoringGenerateToolpath
    \/ ContouringGenerateToolpath
    \/ GenerateContourWithTabs
    \/ GenerateHoleToolpath
    \/ OptimizeToolpathOrderCall
    \/ GenerateToolpaths
    \/ ClassifyGeometriesCall
    \/ GenerateGcode
    \/ OptimizeGcodeCall
    \/ AssembleContoursCall
    \/ AssembleContoursTrace
    \/ AssembleContoursReturn
    \/ SlottingGenerateToolpath

SpecCut == CutInit /\ [][CutNext]_vars

----------------------------------------------------------------------------
(* nest_parts of the nesting servers (server.py and simple_server.py).     *)
(* The calls are coroutines on one event loop: a call runs without          *)
(* interruption from one await to the next, and the only awaits of the      *)
(* body are those of the HTTP client.  A request is "pending" until its     *)
(* coroutine starts, "downloading" while it runs the body, and then         *)
(* "returned" or "cancelled".                                               *)

\* The finally clause skipped.
FinallySkipped(status) == status

\* The finally clause of nest_parts.
Finally(status) == [ status EXCEPT !.is_running = FALSE, !.message = << "Ready" >> ]

\* The dictionary returned while another call is running.
InProgressError(status) ==
    [ error |-> "Nesting operation already in progress", message |-> status.message ]

\* A request whose coroutine has ended: its locals are gone.
Finished(request, state, response) ==
    [ request EXCEPT !.state = state, !.response = response,
                     !.i = 0, !.downloaded = 0 ]

\* The start of a nest_parts call, up to the first await.
NestPartsEnter(c) ==
    /\ requests[c].state = "pending"
    /\ IF nesting_status.is_running
       THEN /\ requests' = [ requests EXCEPT
                               ![c] = Finished(@, "returned",
                                               InProgressError(nesting_status)) ]
            /\ UNCHANGED nesting_status
       ELSE /\ nesting_status' = [ is_running |-> TRUE,
                                   message |-> << "Starting nesting operation..." >> ]
            /\ requests' = [ requests EXCEPT ![c].state = "downloading" ]
    /\ UNCHANGED << nestVars, cutVars >>

\* One iteration of the download loop: the file arrives or the download
\* fails and the loop continues.
DownloadFile(c) ==
    /\ requests[c].state = "downloading"
    /\ requests[c].i < requests[c].urls
    /\ nesting_status' = [ nesting_status EXCEPT
                             !.message = << "Downloading file", requests[c].i + 1,
                                            requests[c].urls >> ]
    /\ \E got \in { 0, 1 } :
          requests' = [ requests EXCEPT ![c].i = @ + 1, ![c].downloaded = @ + got ]
    /\ UNCHANGED << nestVars, cutVars >>

\* The rest of the body after the downloads: no file, or the nester runs
\* and returns or raises; then the finally clause.
RunNesting(c) ==
    /\ requests[c].state = "downloading"
    /\ requests[c].i = requests[c].urls
    /\ \E response \in IF requests[c].downloaded = 0
                        THEN { [ error |-> "No DXF files could be downloaded",
                                 message |-> << "Failed to download any DXF files" >> ] }
                        ELSE { [ error |-> "", message |-> << "nested" >> ],
                               [ error |-> "Nesting operation failed",
                                 message |-> << "Error" >> ] } :
          requests' = [ requests EXCEPT ![c] = Finished(@, "returned", response) ]
    /\ nesting_status' = Finally(nesting_status)
    /\ UNCHANGED << nestVars, cutVars >>

\* An exception in the body at an await of the HTTP client: caught by
\* except Exception, or a cancellation, which passes it; the finally clause
\* runs in both cases.
BodyRaises(c) ==
    /\ requests[c].state = "downloading"
    /\ \/ requests' = [ requests EXCEPT
                          ![c] = Finished(@, "returned",
                                          [ error |-> "Nesting operation failed",
                                            message |-> << "Error" >> ]) ]
       \/ requests' = [ requests EXCEPT
                          ![c] = Finished(@, "cancelled", @.response) ]
    /\ nesting_status' = Finally(nesting_status)
    /\ UNCHANGED << nestVars, cutVars >>

\* get_nesting_status returns the global dictionary and changes nothing; a
\* new request reaches the server.
NewRequest ==
    /\ Len(requests) < MaxRequests
    /\ \E n \in 0 .. MaxUrls :
          requests' = Append(requests,
                             [ state |-> "pending", urls |-> n, i |-> 0,
                               downloaded |-> 0,
                               response |-> [ error |-> "", message |-> << >> ] ])
    /\ UNCHANGED nesting_status
    /\ UNCHANGED << nestVars, cutVars >>

ServerInit ==
    /\ sheet_width = 0
    /\ sheet_height = 0
    /\ spacing = 0
    /\ dxf_files = << >>
    /\ file_entities = << >>
    /\ entry = "nest_parts"
    /\ pc = "off"
    /\ parts = << >>
    /\ idx = 0
    /\ placed_parts = << >>
    /\ remaining_parts = << >>
    /\ occupied_polygons = << >>
    /\ unfittable_parts = << >>
    /\ result = NoResult
    /\ last_rotations = << >>
    /\ cut_call = NoCall
    /\ cut_state = "off"
    /\ cut_out = NoOutput
    /\ nesting_status = Ready
    /\ requests = << >>

ServerNext ==
    \/ NewRequest
    \/ \E c \in 1 .. Len(requests) : NestPartsEnter(c)
    \/ \E c \in 1 .. Len(requests) : DownloadFile(c)
    \/ \E c \in 1 .. Len(requests) : RunNesting(c)
    \/ \E c \in 1 .. Len(requests) : BodyRaises(c)

SpecServer == ServerInit /\ [][ServerNext]_vars

----------------------------------------------------------------------------
(* Properties of the nesting engine *)

\* Smallest squared distance between two polygons.
PolygonDistSq(p, q) == SetMin({ RectDistSq(a, b) : a \in p, b \in q })

\* The polygons of the parts placed before parts[k] was attempted.
OccupiedBefore(k) ==
    LET earlier == { parts[j].id : j \in 1 .. (k - 1) }
    IN  SelectSeq([ i \in 1 .. Len(placed_parts) |-> placed_parts[i] ],
                  LAMBDA r : r.id \in earlier)

IsPlaced(part) == \E i \in 1 .. Len(placed_parts) : placed_parts[i].id = part.id
IsRemaining(part) == \E i \in 1 .. Len(remaining_parts) : remaining_parts[i].id = part.id

\* The bounding box is larger than the sheet (with spacing) in all 4 rotations.
TooLargeForSheet(part) ==
    /\ part.width + spacing > sheet_width \/ part.height + spacing > sheet_height
    /\ part.height + spacing > sheet_width \/ part.width + spacing > sheet_height

\* Some rotation and grid position of parts[k] is inside the sheet and keeps
\* clear of every part placed before it.
SomeCombinationFits(k) ==
    \E a \in 1 .. Len(rotation_angles) :
        LET polygon == RotatedPolygon(parts[k], rotation_angles[a])
            b == Bounds(polygon)
            step_size == Max(Mm(1), Min(b[3], b[4]) \div StepDivisor)
            occ == OccupiedBefore(k)
        IN  /\ b[3] + spacing <= sheet_width
            /\ b[4] + spacing <= sheet_height
            /\ \E x \in Arange(sheet_width - b[3] + Mm(1), step_size),
                  y \in Arange(sheet_height - b[4] + Mm(1), step_size) :
                   /\ x + b[3] <= sheet_width
                   /\ y + b[4] <= sheet_height
                   /\ \A o \in 1 .. Len(occ) :
                          PolygonDistSq(Translate(polygon, x, y), occ[o].polygon)
                              > spacing * spacing

\* C1: after bottom_left_fill has processed any number of parts, every two
\* distinct placed parts are at least spacing apart, and no placed polygon
\* intersects another placed polygon buffered outward by the full spacing.
C1_PlacedPartsKeepSpacing ==
    \A i, j \in 1 .. Len(placed_parts) :
        i # j =>
            /\ PolygonDistSq(placed_parts[i].polygon, placed_parts[j].polygon)
                   >= spacing * spacing
            /\ ~IntersectsBuffered(placed_parts[i].polygon,
                                   placed_parts[j].polygon, spacing)

\* Two 100 x 100 squares are placed on one sheet with spacing 2.
C1_Witness ==
    /\ spacing = Mm(2)
    /\ \E i, j \in 1 .. Len(placed_parts) :
           /\ i # j
           /\ placed_parts[i].original_polygon = { Box(0, 0, 100, 100) }
           /\ placed_parts[j].original_polygon = { Box(0, 0, 100, 100) }

\* C2: the bounding box of every placed polygon lies fully inside
\* [0, sheet_width] x [0, sheet_height].
C2_PlacedInsideSheet ==
    \A i \in 1 .. Len(placed_parts) :
        LET b == Bounds(placed_parts[i].polygon)
        IN  /\ 0 <= b[1] /\ b[3] <= sheet_width
            /\ 0 <= b[2] /\ b[4] <= sheet_height

\* A part is placed in a row above one whose grid runs past the sheet edge:
\* the 1.5 mm grid of a 15 x 15 part on the 31 mm wide sheet.
C2_Witness ==
    /\ sheet_width = Mm(31)
    /\ Len(placed_parts) >= 2
    /\ placed_parts[1].original_polygon = { Box(0, 0, 15, 15) }
    /\ placed_parts[2].original_polygon = { Box(0, 0, 15, 15) }
    /\ placed_parts[2].y > 0

\* C3: a part for which no rotation/position combination fits (in particular
\* one whose bounding box exceeds the sheet in all 4 rotations) is recorded in
\* the unfitted list and is never placed, and every part after it is still
\* attempted: each part the loop has passed is in exactly one of the two
\* lists, and the loop only ends after the last part.
C3_UnfittablePartIsRemaining ==
    /\ \A k \in 1 .. idx :
           /\ IsPlaced(parts[k]) # IsRemaining(parts[k])
           /\ (TooLargeForSheet(parts[k]) \/ ~SomeCombinationFits(k))
                  => IsRemaining(parts[k]) /\ ~IsPlaced(parts[k])
    /\ \A k \in (idx + 1) .. Len(parts) :
           ~IsPlaced(parts[k]) /\ ~IsRemaining(parts[k])
    /\ Len(placed_parts) + Len(remaining_parts) = idx
    /\ pc = "done" => idx = Len(parts)

\* A part too large for the sheet was left, and a later part was placed.
C3_Witness ==
    \E k, j \in 1 .. idx :
        /\ k < j
        /\ TooLargeForSheet(parts[k])
        /\ IsRemaining(parts[k])
        /\ IsPlaced(parts[j])

\* C5: a 100 x 100 square that is the first part on a 1000 x 500 sheet with
\* spacing 2 is placed with rotation 0 and its bottom-left corner at (0, 0).
C5_FirstSquareAtOrigin ==
    ( /\ sheet_width = Mm(1000) /\ sheet_height = Mm(500) /\ spacing = Mm(2)
      /\ idx >= 1
      /\ parts[1].polygon = { Box(0, 0, 100, 100) } )
    => /\ Len(placed_parts) >= 1
       /\ placed_parts[1].id = parts[1].id
       /\ placed_parts[1].rotation = 0
       /\ placed_parts[1].x = 0
       /\ placed_parts[1].y = 0
       /\ Bounds(placed_parts[1].polygon) = << 0, 0, Mm(100), Mm(100) >>

\* The square was drawn away from the origin and is the only part placed.
C5_Witness ==
    /\ sheet_width = Mm(1000) /\ sheet_height = Mm(500) /\ spacing = Mm(2)
    /\ pc = "done"
    /\ Len(parts) = 1
    /\ dxf_files[parts[1].file] = { Box(30, 40, 100, 100) }
    /\ Len(placed_parts) = 1

\* C10: for every part polygon and every rotation in {0, 90, 180, 270},
\* normalize -> rotate about the recorded centroid -> re-normalize preserves
\* the polygon's area, puts the bounding-box minimum at (0, 0), and gives a
\* bounding box whose width and height are those of the original, swapped
\* for 90/270 and unchanged for 0/180.
C10_RotationRoundTrip ==
    \A k \in 1 .. Len(last_rotations) :
        LET r == last_rotations[k]
            raw == Bounds(dxf_files[r.id])
            w == raw[3] - raw[1]
            h == raw[4] - raw[2]
            b == Bounds(r.polygon)
        IN  /\ PolygonArea(r.polygon) = PolygonArea(dxf_files[r.id])
            /\ b[1] = 0 /\ b[2] = 0
            /\ r.angle \in {0, 180} => b[3] = w /\ b[4] = h
            /\ r.angle \in {90, 270} => b[3] = h /\ b[4] = w

\* An L-shaped part drawn away from the origin, 3 x 2 mm, was rotated.
C10_Witness ==
    \E k \in 1 .. Len(last_rotations) :
        /\ last_rotations[k].angle = 90
        /\ dxf_files[last_rotations[k].id] = { Box(2, 1, 3, 1), Box(2, 2, 1, 1) }
        /\ Bounds(last_rotations[k].polygon) = << 0, 0, Mm(2), Mm(3) >>

\* The bounding box of the outline among the entities written for the k-th
\* placed part: the outline is the first entity of every file.
WrittenOutlineBounds(k) ==
    GetEntityBounds(<< result.nested_dxf[k][1] >>)

\* C15: for every placed part, at each of the rotations 0, 90, 180 and 270,
\* the bounding box of the entities _add_transformed_entities writes for the
\* part's outline equals the bounding box of the collision polygon it was
\* placed with (normalized, rotated, re-normalized and translated).
C15_WrittenEntitiesMatchCollisionPolygon ==
    (pc = "done" /\ entry = "nest_parts" /\ placed_parts # << >>) =>
        \A k \in 1 .. Len(placed_parts) :
            WrittenOutlineBounds(k) = Bounds(placed_parts[k].polygon)

\* The size check of find_best_position_with_rotation fails for the part at
\* each of the four angles: the sheet is too small for it.
SheetTooSmallFor(part) ==
    \A k \in 1 .. Len(rotation_angles) :
        LET bounds == Bounds(RotatedPolygon(part, rotation_angles[k]))
        IN  \/ (bounds[3] - bounds[1]) + spacing > sheet_width
            \/ (bounds[4] - bounds[2]) + spacing > sheet_height

\* What the run reports about a part: the lists it has been put on.
ReportedOutcome(part) ==
    [ placed |-> \E k \in 1 .. Len(placed_parts) : placed_parts[k].id = part.id,
      remaining |-> \E k \in 1 .. Len(remaining_parts) : remaining_parts[k].id = part.id,
      unfittable |-> \E k \in 1 .. Len(unfittable_parts) : unfittable_parts[k] = part.file ]

\* C16: a part the sheet is too small for at all four rotations is reported
\* with an outcome distinct from that of a part that passes the size check
\* but finds no free position among the parts already placed.
C16_SheetTooSmallReportedDistinctly ==
    \A i, j \in 1 .. Len(remaining_parts) :
        (SheetTooSmallFor(remaining_parts[i]) /\ ~SheetTooSmallFor(remaining_parts[j]))
            => ReportedOutcome(remaining_parts[i]) # ReportedOutcome(remaining_parts[j])

\* C17: after bottom_left_fill every placed part keeps a margin of at least
\* spacing to each of the four edges of the sheet.
C17_PlacedPartsKeepEdgeMargin ==
    \A k \in 1 .. Len(placed_parts) :
        LET bounds == Bounds(placed_parts[k].polygon)
        IN  /\ bounds[1] >= spacing
            /\ bounds[2] >= spacing
            /\ sheet_width - bounds[3] >= spacing
            /\ sheet_height - bounds[4] >= spacing

\* The placement of a placed part: its position, rotation and polygon.
PlacementOf(item) ==
    << item.id, item.x, item.y, item.rotation, item.polygon >>

\* C20: placement state is written once: a step of the run leaves the
\* position, rotation and polygon of every part placed before it unchanged,
\* removes no part from the placed list and places no part that was left
\* as remaining.
C20_PlacementWrittenOnce ==
    [][ /\ Len(placed_parts') >= Len(placed_parts)
        /\ \A k \in 1 .. Len(placed_parts) :
               PlacementOf(placed_parts'[k]) = PlacementOf(placed_parts[k])
        /\ \A i \in 1 .. Len(remaining_parts), k \in 1 .. Len(placed_parts') :
               placed_parts'[k].id # remaining_parts[i].id ]_vars

\* A part was placed, a later part was left as remaining, and a part after
\* that one was placed.
C20_Witness ==
    /\ pc = "fill"
    /\ idx = 3
    /\ Len(placed_parts) = 2
    /\ Len(remaining_parts) = 1
    /\ remaining_parts[1].id = parts[2].id

\* The (x + width) * (y + height) of every valid pair for a part: every
\* rotation that passes the size check, every grid position of it that is
\* inside the sheet and free of the occupied polygons.
ValidAreasUsed(part, occupied) ==
    UNION { LET polygon == RotatedPolygon(part, rotation_angles[k])
                bounds == Bounds(polygon)
                w == bounds[3] - bounds[1]
                h == bounds[4] - bounds[2]
                step_size == Max(Mm(1), Min(w, h) \div StepDivisor)
            IN  IF w + spacing > sheet_width \/ h + spacing > sheet_height
                THEN {}
                ELSE { (x + w) * (y + h) :
                         << x, y >> \in
                           { q \in Arange(sheet_width - w + Mm(1), step_size)
                                   \X Arange(sheet_height - h + Mm(1), step_size) :
                               PositionAccepted(polygon, q[1], q[2], occupied) } }
            : k \in 1 .. Len(rotation_angles) }

Attempted == SubSeq(parts, 1, idx)

\* C22: nest_parts attempts placement in non-increasing order of area: no
\* part is attempted before a part of strictly larger area, parts of equal
\* area are attempted in input order, and the parts attempted so far are
\* the placed and the remaining ones.
C22_AttemptsInAreaOrder ==
    (entry = "nest_parts" /\ pc \in { "fill", "done" }) =>
        /\ \A i, j \in 1 .. Len(parts) :
              i < j =>
                LET area_i == PolygonArea(dxf_files[parts[i].id])
                    area_j == PolygonArea(dxf_files[parts[j].id])
                IN  /\ area_i >= area_j
                    /\ area_i = area_j => parts[i].id < parts[j].id
        /\ { Attempted[k].id : k \in 1 .. idx }
             = { placed_parts[k].id : k \in 1 .. Len(placed_parts) }
               \cup { remaining_parts[k].id : k \in 1 .. Len(remaining_parts) }
        /\ \A k \in (idx + 1) .. Len(parts) :
              /\ \A i \in 1 .. Len(placed_parts) : placed_parts[i].id # parts[k].id
              /\ \A i \in 1 .. Len(remaining_parts) : remaining_parts[i].id # parts[k].id

\* Three files were given smallest first, the other two of equal area: all
\* three have been attempted, the two equal ones first and in input order.
C22_Witness ==
    /\ entry = "nest_parts"
    /\ pc = "fill"
    /\ idx = 3
    /\ Len(parts) = 3
    /\ << parts[1].id, parts[2].id, parts[3].id >> = << 2, 3, 1 >>
    /\ PolygonArea(dxf_files[2]) = PolygonArea(dxf_files[3])
    /\ PolygonArea(dxf_files[1]) < PolygonArea(dxf_files[2])

----------------------------------------------------------------------------
(* Properties of the toolpath operations *)

Returned(op) == cut_state = "returned" /\ cut_call.op = op

\* Thickness and depth per pass of the call, whatever the operation.
CallThickness ==
    IF cut_call.op \in { "contour_with_tabs", "hole_toolpath" }
    THEN cut_call.config.material.thickness ELSE cut_call.material_thickness

CallDepthPerPass ==
    IF cut_call.op \in { "contour_with_tabs", "hole_toolpath" }
    THEN cut_call.config.material.step_down ELSE cut_call.settings.depth_per_pass

\* The depths, in mm below the surface times unit, of the moves that cut.
CutDepths ==
    CASE cut_call.op = "boring" ->
           { cut_out.toolpaths[k].depth : k \in
               { j \in 1 .. Len(cut_out.toolpaths) :
                   cut_out.toolpaths[j].type \in { "boring_plunge", "helical_move" } } }
      [] cut_call.op = "contouring" ->
           { cut_out.toolpaths[k].depth * HelixUnit : k \in
               { j \in 1 .. Len(cut_out.toolpaths) :
                   cut_out.toolpaths[j].type \in { "plunge", "contour_cut" } } }
      [] OTHER ->
           { cut_out.points[k][3] * HelixUnit : k \in
               { j \in 1 .. Len(cut_out.points) : cut_out.points[j][3] < 0 } }

\* The depth of the last move that cuts, in 1/HelixUnit mm.
LastCutDepth ==
    CASE cut_call.op = "boring" ->
           LET cuts == { j \in 1 .. Len(cut_out.toolpaths) :
                           cut_out.toolpaths[j].type \in { "boring_plunge",
                                                           "helical_move" } }
           IN  cut_out.toolpaths[SetMax(cuts)].depth
      [] cut_call.op = "contouring" ->
           LET cuts == { j \in 1 .. Len(cut_out.toolpaths) :
                           /\ cut_out.toolpaths[j].type = "contour_cut"
                           /\ ~cut_out.toolpaths[j].is_finish_pass }
           IN  cut_out.toolpaths[SetMax(cuts)].depth * HelixUnit
      [] OTHER ->
           cut_out.points[Len(cut_out.points) - 1][3] * HelixUnit

\* C6: for thickness T > 0 and depth per pass D > 0, BoringOperation,
\* ContouringOperation and ToolpathGenerator._generate_contour_with_tabs step
\* down exactly ceil(T / D) times, the last step-down pass cuts at depth
\* exactly T, and no move cuts deeper than T.
C6_DepthPasses ==
    (cut_state = "returned"
     /\ cut_call.op \in { "boring", "contouring", "contour_with_tabs" })
    => /\ Len(cut_out.pass_depths) = CeilDiv(CallThickness, CallDepthPerPass)
       /\ cut_out.pass_depths[Len(cut_out.pass_depths)] = CallThickness
       /\ LastCutDepth = -(CallThickness * HelixUnit)
       /\ SetMin(CutDepths) = -(CallThickness * HelixUnit)

\* A call has returned whose thickness is not a multiple of the depth per
\* pass and took more than one pass.
C6_Witness ==
    /\ cut_state = "returned"
    /\ cut_call.op \in { "boring", "contouring", "contour_with_tabs" }
    /\ CallThickness % CallDepthPerPass # 0
    /\ Len(cut_out.pass_depths) >= 2
    /\ cut_out.pass_depths[Len(cut_out.pass_depths)] = CallThickness

\* C7: no tab made by ToolpathGenerator._calculate_tab_positions has its
\* centre within the corner exclusion zone, measured along the perimeter
\* with wrap-around, of a corner found by _find_corners.
C7_TabsAwayFromCorners ==
    Returned("contour_with_tabs")
    => \A t \in 1 .. Len(cut_out.tabs) : \A k \in 1 .. Len(cut_out.corners) :
          ~(WrapDistance(cut_out.tabs[t].center_distance, cut_out.corners[k],
                         cut_out.total_length * cut_out.scale)
            < cut_call.config.tabs.corner_exclusion_zone * cut_out.scale)

\* Moves of the given type in the output of the boring operation.
MovesOfType(type) ==
    { j \in 1 .. Len(cut_out.toolpaths) : cut_out.toolpaths[j].type = type }

ExactFit == cut_call.hole_radius = cut_call.settings.tool_diameter \div 2

\* C8: when the hole radius equals the tool radius,
\* BoringOperation.generate_toolpath emits no helical_move and, for each
\* depth pass, exactly one boring_plunge, at the depth of that pass.
C8_ExactFitPlunges ==
    (Returned("boring") /\ ExactFit)
    => /\ MovesOfType("helical_move") = {}
       /\ Cardinality(MovesOfType("boring_plunge"))
          = CeilDiv(cut_call.material_thickness, cut_call.settings.depth_per_pass)
       /\ \A p \in 1 .. Len(cut_out.pass_depths) :
             Cardinality({ j \in MovesOfType("boring_plunge") :
                             cut_out.toolpaths[j].depth
                             = -(cut_out.pass_depths[p] * HelixUnit) }) = 1

\* An exact-fit hole has been bored in more than one pass.
C8_Witness ==
    /\ Returned("boring")
    /\ ExactFit
    /\ Len(cut_out.pass_depths) >= 2
    /\ Cardinality(MovesOfType("boring_plunge")) >= 2

\* The diameters of the hole of the call and of the tool, in mm.
CallHoleDiameter ==
    IF cut_call.op = "boring" THEN 2 * cut_call.hole_radius
    ELSE CalculateBbox(cut_call.hole)[3] - CalculateBbox(cut_call.hole)[1]

CallToolDiameter ==
    IF cut_call.op = "boring" THEN cut_call.settings.tool_diameter
    ELSE cut_call.config.tool.diameter

\* C9: for a hole whose radius is smaller than the tool radius, neither
\* BoringOperation.generate_toolpath nor
\* ToolpathGenerator._generate_hole_toolpath returns a toolpath: the call
\* ends in an error and leaves no moves.
C9_SmallHoleIsAnError ==
    (cut_call.op \in { "boring", "hole_toolpath" }
     /\ cut_state # "ready"
     /\ CallHoleDiameter < CallToolDiameter)
    => (cut_state = "raised" /\ cut_out = NoOutput)

\* The number of moves each step-down pass has in the output: the passes of
\* one call all make the same moves at different depths.
MovesPerPass ==
    IF cut_call.op = "contouring"
    THEN LET rough == { j \in 1 .. Len(cut_out.toolpaths) :
                          /\ ~cut_out.toolpaths[j].is_finish_pass
                          /\ cut_out.toolpaths[j].type # "rapid_retract" }
         IN  Cardinality(rough) \div Len(cut_out.pass_depths)
    ELSE (Len(cut_out.points) - 2) \div Len(cut_out.pass_depths)

\* The heights of the cutting moves of step-down pass p, in mm.
PassHeights(p) ==
    IF cut_call.op = "contouring"
    THEN { cut_out.toolpaths[j].depth : j \in
             { i \in ((p - 1) * MovesPerPass + 1) .. (p * MovesPerPass) :
                 cut_out.toolpaths[i].type \in { "plunge", "contour_cut" } } }
    ELSE { cut_out.points[j][3] :
             j \in ((p - 1) * MovesPerPass + 2) .. (p * MovesPerPass + 1) }

\* The call had tabs to place and took more than one step-down pass.
TabbedMultiPass ==
    /\ cut_state = "returned"
    /\ cut_call.op \in { "contouring", "contour_with_tabs" }
    /\ Len(cut_out.pass_depths) > 1
    /\ IF cut_call.op = "contouring" THEN cut_call.tabs # << >>
       ELSE cut_out.tabs # << >>

\* C11: with tabs and more than one depth pass, every pass before the last
\* cuts all of the contour at its pass depth: no move of it is lifted over a
\* tab (ContouringOperation.generate_toolpath and
\* ToolpathGenerator._generate_contour_with_tabs).
C11_TabsOnlyInFinalPass ==
    TabbedMultiPass
    => \A p \in 1 .. (Len(cut_out.pass_depths) - 1) :
          PassHeights(p) = { -cut_out.pass_depths[p] }

\* C12: with tabs enabled, ToolpathGenerator._calculate_tab_positions makes
\* max(min_tabs_per_part, ceil(perimeter / spacing)) tabs.
C12_TabCount ==
    (Returned("contour_with_tabs") /\ cut_call.config.tabs.enabled)
    => Len(cut_out.tabs)
       = Max(cut_call.config.tabs.min_tabs_per_part,
             CeilDiv(cut_out.total_length, cut_call.config.tabs.spacing))

\* C13: in the list generate_toolpaths returns, the toolpaths of the holes
\* of a part all come before the toolpath of the outer contour of that part.
C13_HolesBeforeContour ==
    Returned("generate_toolpaths")
    => \A i, j \in 1 .. Len(cut_out.origins) :
          (/\ cut_out.origins[i].part = cut_out.origins[j].part
           /\ cut_out.origins[i].hole > 0
           /\ cut_out.origins[j].hole = 0)
          => i < j

\* The squared distance from the last point of the toolpath given at
\* position from to the first point of the one given at position to.
TravelBetween(from, to) ==
    TravelSq(PointMm(cut_call.toolpaths[to], 1),
             PointMm(cut_call.toolpaths[from], Len(cut_call.toolpaths[from].points)))

\* C14: _optimize_toolpath_order returns a permutation of its input that
\* keeps the first toolpath first; each later toolpath is, among those not
\* yet chosen, the one whose first point is nearest to the last point of the
\* toolpath chosen before it, the earliest in input order among equals.
C14_NearestNeighbourOrder ==
    Returned("optimize_toolpath_order")
    => LET n == Len(cut_call.toolpaths)
           order == cut_out.order
       IN  /\ Len(cut_out.toolpaths) = n
           /\ Len(order) = n
           /\ { order[k] : k \in 1 .. n } = 1 .. n
           /\ \A k \in 1 .. n : cut_out.toolpaths[k] = cut_call.toolpaths[order[k]]
           /\ n >= 1 => order[1] = 1
           /\ \A k \in 2 .. n :
                 \A j \in (1 .. n) \ { order[i] : i \in 1 .. (k - 1) } :
                    \/ TravelBetween(order[k - 1], order[k])
                       < TravelBetween(order[k - 1], j)
                    \/ /\ TravelBetween(order[k - 1], order[k])
                          = TravelBetween(order[k - 1], j)
                       /\ order[k] <= j

\* Three toolpaths were given and the third was nearer to the end of the
\* first than the second was, so it is returned second.
C14_Witness ==
    /\ Returned("optimize_toolpath_order")
    /\ Len(cut_call.toolpaths) = 3
    /\ cut_out.order = << 1, 3, 2 >>
    /\ TravelBetween(1, 3) < TravelBetween(1, 2)
    /\ cut_out.toolpaths[2] = cut_call.toolpaths[3]

\* The parts whose hole list holds the contour of the given entity.
PartsHolding(part_list, entity) ==
    { k \in 1 .. Len(part_list) :
        \E h \in 1 .. Len(part_list[k].holes) : part_list[k].holes[h].entity = entity }

\* The parts whose own contour is that of the given entity.
PartsOf(part_list, entity) ==
    { k \in 1 .. Len(part_list) : part_list[k].contour.entity = entity }

\* The polygons before polygon i, in the sorted order, that contain it.
EarlierContaining(polygons, i) ==
    { j \in 1 .. (i - 1) : Contains(polygons[j].geometry, polygons[i].geometry) }

\* C18: in _classify_geometries a contour contained in no polygon before it
\* in the area-descending order becomes a new part (and nobody's hole); any
\* other contour becomes no part and is put once on the hole list of the
\* first earlier polygon that contains it, which is a part and not smaller.
C18_HoleOfFirstContainingPolygon ==
    Returned("classify_geometries")
    => LET polygons == cut_out.polygons
           part_list == cut_out.parts
       IN  /\ Len(polygons) = Len(cut_call.contours)
           /\ \A i \in 1 .. (Len(polygons) - 1) : polygons[i].area >= polygons[i + 1].area
           /\ \A i \in 1 .. Len(polygons) :
                 LET entity == polygons[i].contour.entity
                     earlier == EarlierContaining(polygons, i)
                 IN  IF earlier = {}
                     THEN /\ Cardinality(PartsOf(part_list, entity)) = 1
                          /\ PartsHolding(part_list, entity) = {}
                     ELSE /\ PartsOf(part_list, entity) = {}
                          /\ \E k \in 1 .. Len(part_list) :
                                /\ PartsHolding(part_list, entity) = { k }
                                /\ part_list[k].contour = polygons[SetMin(earlier)].contour
                                /\ part_list[k].area >= polygons[i].area
                                /\ Cardinality({ h \in 1 .. Len(part_list[k].holes) :
                                       part_list[k].holes[h].entity = entity }) = 1

\* A plate holds a cut-out that holds a hole: both the cut-out and the hole
\* are on the hole list of the plate, the first polygon containing them.
C18_Witness ==
    /\ Returned("classify_geometries")
    /\ Len(cut_call.contours) = 3
    /\ Len(cut_out.parts) = 1
    /\ Len(cut_out.parts[1].holes) = 2
    /\ EarlierContaining(cut_out.polygons, 3) = { 1, 2 }
    /\ cut_out.parts[1].contour = cut_out.polygons[1].contour

RECURSIVE Flatten(_, _)
\* The words of the first n lines, in one sequence.
Flatten(gcode, n) ==
    IF n = 0 THEN << >> ELSE Flatten(gcode, n - 1) \o gcode[n]

\* A word of the sequence repeats the modal word in effect: it is a motion
\* word equal to the last motion word before it, or a feed word equal to
\* the last feed word before it.
RepeatsModalWord(ws, k) ==
    \/ /\ ws[k].letter \in MotionWords
       /\ \E j \in 1 .. (k - 1) :
             /\ ws[j] = ws[k]
             /\ \A i \in (j + 1) .. (k - 1) : ws[i].letter \notin MotionWords
    \/ /\ ws[k].letter = "F"
       /\ \E j \in 1 .. (k - 1) :
             /\ ws[j] = ws[k]
             /\ \A i \in (j + 1) .. (k - 1) : ws[i].letter # "F"

\* No word of the text repeats the modal word in effect.
NoRedundantWords(gcode) ==
    LET ws == Flatten(gcode, Len(gcode))
    IN  \A k \in 1 .. Len(ws) : ~RepeatsModalWord(ws, k)

\* C19: in the G-code text generate_gcode produces for a move list, no line
\* carries a motion-mode word (G00, G01, G02, G03) or a feed-rate word F
\* equal to the one in effect from the preceding lines.
C19_NoRedundantModalWords ==
    Returned("generate_gcode") => NoRedundantWords(cut_out.gcode)

\* The text optimize_gcode returns for a generated program has no such word.
OptimizedGcodeHasNoRedundantWords ==
    Returned("optimize_gcode") => NoRedundantWords(cut_out.gcode)

\* How often x occurs in the sequence s.
Occurrences(s, x) == Cardinality({ k \in 1 .. Len(s) : s[k] = x })

\* C26: nest_parts accounts for each input file exactly once, as a placed
\* part or as one entry of unfittable_parts, never both and never neither,
\* so the placed parts and the unfittable entries add up to the input files.
C26_EachFileAccountedOnce ==
    (entry = "nest_parts" /\ pc = "done") =>
        /\ \A i \in 1 .. Len(dxf_files) :
              Occurrences([ k \in 1 .. Len(placed_parts) |-> placed_parts[k].file ], i)
              + Occurrences(result.unfittable_parts, i) = 1
        /\ Len(placed_parts) + Len(result.unfittable_parts) = Len(dxf_files)

\* A call that placed a part, found a file without geometry and could not
\* fit a third one.
C26_Witness ==
    /\ entry = "nest_parts"
    /\ pc = "done"
    /\ placed_parts # << >>
    /\ remaining_parts # << >>
    /\ \E i \in 1 .. Len(dxf_files) : dxf_files[i] = NoGeometry

\* C23: whenever _trace_contour fails to close a loop, because no unused
\* connected segment is left or because max_segments is reached, it returns
\* no contour and used_segments is as it was before the call.
C23_FailedTraceRestoresUsedSegments ==
    (cut_call.op = "assemble_contours" /\ cut_state \in { "running", "returned" }) =>
        \A k \in 1 .. Len(cut_out.traces) :
            LET trace == cut_out.traces[k]
            IN  /\ trace.ended \in { "no segment left", "max_segments" }
                    => /\ trace.contour = << >>
                       /\ trace.used_after = trace.used_before
                /\ trace.ended = "closed"
                    => /\ trace.contour # << >>
                       /\ trace.used_before \subseteq trace.used_after

\* In one run a trace took segments and ran out of connected ones, and
\* another took max_segments segments without closing its loop.
C23_Witness ==
    /\ cut_call.op = "assemble_contours"
    /\ cut_state = "returned"
    /\ \E k \in 1 .. Len(cut_out.traces) :
          /\ cut_out.traces[k].ended = "no segment left"
          /\ Len(cut_out.traces[k].path_segments) >= 2
    /\ \E k \in 1 .. Len(cut_out.traces) :
          /\ cut_out.traces[k].ended = "max_segments"
          /\ Len(cut_out.traces[k].path_segments) = max_segments

\* The words with the letter in the line of a step (none when it has no line).
WordsOf(step, letter) ==
    IF step.lines = << >> THEN << >>
    ELSE SelectSeq(step.lines[1], LAMBDA w : w.letter = letter)

\* C24: _process_toolpath_move emits an X, Y or Z word exactly when the
\* move's value differs from the tracked position on that axis, and an F
\* word exactly when the operation is G01, G02 or G03 and the feed differs
\* from the tracked feed; after the move the tracked value of every emitted
\* word is the move's value.
C24_WordsEmittedExactlyOnChange ==
    Returned("generate_gcode") =>
        \A n \in 1 .. Len(cut_out.steps) :
            LET move == cut_call.toolpaths[n]
                step == cut_out.steps[n]
                operation == Get(move, "operation", "G01")
                z == Get(move, "depth", step.before.Z)
                feed == Get(move, "feed_rate", step.before.current_feed)
            IN  /\ WordsOf(step, "X") =
                      IF move.position[1] # step.before.X
                      THEN << Word("X", Format3(move.position[1])) >> ELSE << >>
                /\ WordsOf(step, "Y") =
                      IF move.position[2] # step.before.Y
                      THEN << Word("Y", Format3(move.position[2])) >> ELSE << >>
                /\ WordsOf(step, "Z") =
                      IF z # step.before.Z
                      THEN << Word("Z", Format3(z)) >> ELSE << >>
                /\ WordsOf(step, "F") =
                      IF operation \in { "G01", "G02", "G03" }
                         /\ feed # step.before.current_feed
                      THEN << Word("F", Format0(feed)) >> ELSE << >>
                /\ WordsOf(step, "X") # << >> => step.after.X = move.position[1]
                /\ WordsOf(step, "Y") # << >> => step.after.Y = move.position[2]
                /\ WordsOf(step, "Z") # << >> => step.after.Z = z
                /\ WordsOf(step, "F") # << >> => step.after.current_feed = feed

\* A rapid move with a feed that differs from the tracked one emits an X word
\* and no F word, and a later cutting move emits Y and F words but no X word.
C24_Witness ==
    /\ Returned("generate_gcode")
    /\ \E n \in 1 .. Len(cut_out.steps) :
          /\ Get(cut_call.toolpaths[n], "operation", "G01") = "G00"
          /\ "feed_rate" \in DOMAIN cut_call.toolpaths[n]
          /\ cut_call.toolpaths[n].feed_rate # cut_out.steps[n].before.current_feed
          /\ WordsOf(cut_out.steps[n], "X") # << >>
          /\ WordsOf(cut_out.steps[n], "F") = << >>
    /\ \E n \in 1 .. Len(cut_out.steps) :
          /\ WordsOf(cut_out.steps[n], "X") = << >>
          /\ WordsOf(cut_out.steps[n], "Y") # << >>
          /\ WordsOf(cut_out.steps[n], "F") # << >>

\* C25: two successive generate_gcode calls on the same Mach3PostProcessor
\* with the same move list produce the same move lines.
C25_RepeatedCallGivesSameMoveLines ==
    Returned("generate_gcode") =>
        \A k \in 1 .. Len(cut_out.earlier_move_lines) :
            cut_out.earlier_move_lines[k] = cut_out.move_lines

\* The operations that make a move list from a thickness.
DepthOperations ==
    { "boring", "contouring", "slotting", "contour_with_tabs", "hole_toolpath" }

\* The depths of all the moves of the returned list, and the number of
\* depth units in a millimetre.
MoveDepths ==
    IF cut_call.op \in { "contour_with_tabs", "hole_toolpath" }
    THEN { cut_out.points[k][3] : k \in 1 .. Len(cut_out.points) }
    ELSE { cut_out.toolpaths[k].depth : k \in 1 .. Len(cut_out.toolpaths) }

DepthUnit ==
    CASE cut_call.op = "boring" -> HelixUnit
      [] cut_call.op = "slotting" -> num_points
      [] OTHER -> 1

\* C27: in every generated move list (contouring, boring, slotting and the
\* contour, pocket and drill toolpaths of ToolpathGenerator) no move goes
\* deeper than the material thickness, and the cutting depth of each depth
\* pass is strictly greater than that of the pass before it.
C27_DepthWithinThicknessAndIncreasing ==
    (cut_state = "returned" /\ cut_call.op \in DepthOperations) =>
        /\ \A depth \in MoveDepths : depth >= -(CallThickness * DepthUnit)
        /\ \A p \in 1 .. Len(cut_out.pass_depths) :
              /\ cut_out.pass_depths[p] > 0
              /\ p > 1 => cut_out.pass_depths[p] > cut_out.pass_depths[p - 1]

\* A slot has been cut in several passes, the last one shallower than the
\* depth per pass, down to the thickness.
C27_Witness ==
    /\ Returned("slotting")
    /\ Len(cut_out.pass_depths) >= 2
    /\ cut_call.material_thickness % cut_call.settings.depth_per_pass # 0
    /\ -(cut_call.material_thickness * num_points) \in MoveDepths

\* C28: in every move list of the boring and contouring operations a G00
\* move never targets a depth below the material surface.
C28_RapidsStayAboveSurface ==
    (cut_state = "returned" /\ cut_call.op \in { "boring", "contouring" }) =>
        \A k \in 1 .. Len(cut_out.toolpaths) :
            cut_out.toolpaths[k].operation = "G00" => cut_out.toolpaths[k].depth >= 0

RECURSIVE HoleCount(_, _)
\* The number of entries of the hole lists of the first n parts.
HoleCount(part_list, n) ==
    IF n = 0 THEN 0 ELSE HoleCount(part_list, n - 1) + Len(part_list[n].holes)

\* How often the contour is on the hole list of part k.
TimesHeld(part_list, k, contour) ==
    Cardinality({ h \in 1 .. Len(part_list[k].holes) : part_list[k].holes[h] = contour })

\* C29: _classify_geometries partitions its input: every contour is the
\* outer contour of exactly one part or is once in the hole list of exactly
\* one part, never both; none is dropped and none appears twice, also when
\* contours are nested several levels deep.
C29_ClassificationPartitionsContours ==
    Returned("classify_geometries")
    => /\ \A c \in 1 .. Len(cut_call.contours) :
             LET contour == cut_call.contours[c]
                 as_part == { k \in 1 .. Len(cut_out.parts) :
                                cut_out.parts[k].contour = contour }
                 as_hole == { k \in 1 .. Len(cut_out.parts) :
                                TimesHeld(cut_out.parts, k, contour) > 0 }
             IN  /\ Cardinality(as_part) + Cardinality(as_hole) = 1
                 /\ \A k \in as_hole : TimesHeld(cut_out.parts, k, contour) = 1
       /\ Len(cut_out.parts) + HoleCount(cut_out.parts, Len(cut_out.parts))
          = Len(cut_call.contours)

\* Contours nested three levels deep have been classified: one of the two
\* holes of a part lies inside the other.
C29_Witness ==
    /\ Returned("classify_geometries")
    /\ \E k \in 1 .. Len(cut_out.parts) :
          \E g, h \in 1 .. Len(cut_out.parts[k].holes) :
              /\ g # h
              /\ cut_out.parts[k].holes[g] # cut_out.parts[k].holes[h]
              /\ Contains(GeometryOf(cut_out.parts[k].holes[g]),
                          GeometryOf(cut_out.parts[k].holes[h]))

\* The calls that are running the nesting body.
RunningBody == { c \in 1 .. Len(requests) : requests[c].state = "downloading" }

\* At most one call runs the body, and the flag is set exactly while one does.
OneBodyAtATime ==
    /\ Cardinality(RunningBody) <= 1
    /\ nesting_status.is_running <=> RunningBody # {}

\* A call that starts while the flag is set returns the in-progress error
\* and leaves nesting_status as it is; a call that starts otherwise sets it.
StartsRespectFlag ==
    \A c \in 1 .. Len(requests) :
        (requests[c].state = "pending" /\ requests'[c].state # "pending") =>
            IF nesting_status.is_running
            THEN /\ requests'[c].state = "returned"
                 /\ requests'[c].response.error = "Nesting operation already in progress"
                 /\ nesting_status' = nesting_status
            ELSE /\ requests'[c].state = "downloading"
                 /\ nesting_status'.is_running

\* When the call that set the flag finishes, with a result, an error or a
\* cancellation, the flag is False.
FinishClearsFlag ==
    \A c \in 1 .. Len(requests) :
        (requests[c].state = "downloading" /\ requests'[c].state # "downloading") =>
            /\ requests'[c].state \in { "returned", "cancelled" }
            /\ ~nesting_status'.is_running

\* C30: under any interleaving of nest_parts calls on the nesting server at
\* most one runs the nesting body at a time; a call arriving while
\* is_running is True returns the already-in-progress error and leaves the
\* flag unchanged; the flag is False again once the call that set it has
\* finished, normally or with a failure.
C30_OneNestingAtATime ==
    [][OneBodyAtATime /\ OneBodyAtATime' /\ StartsRespectFlag /\ FinishClearsFlag]_vars

\* A call failed and the flag was cleared, a later call set it again and is
\* running the body, and a third call was turned away meanwhile.
C30_Witness ==
    \E a, b, c \in 1 .. Len(requests) :
        /\ requests[a].state = "returned"
        /\ requests[a].response.error = "Nesting operation failed"
        /\ requests[b].state = "downloading"
        /\ requests[b].i >= 1
        /\ requests[c].state = "returned"
        /\ requests[c].response.error = "Nesting operation already in progress"
        /\ requests[c].response.message = << "Downloading file", 1, requests[b].urls >>
        /\ nesting_status.is_running

====
